---- MODULE Spec2Model ----
(***************************************************************************)
(* Model of the graph execution engine of @ellyco/agentic: Graph           *)
(* (transition / step / runInternal / run / invoke), the RuntimeContext    *)
(* layer stack with its cursor codec, InterruptNode, mergeState, and the   *)
(* store contract used by persisted runs.                                  *)
(*                                                                         *)
(* Representation.  A node name is a sequence of atoms; the atom "." is    *)
(* the cursor separator, so a cursor (a JS string) is the flat sequence of *)
(* atoms that join(".") produces and split(".") cuts again.  A state is a  *)
(* function from field names to tagged values (number / array / object /   *)
(* null / class); a partial update is such a function with fewer keys.     *)
(***************************************************************************)
EXTENDS Integers, Sequences, FiniteSets, TLC

\* ------------------------------------------------------------------ bounds
MaxInvokes == 4
MaxCount == 1
NumBound == 4

\* ------------------------------------------------------- reserved node names
START == <<"start">>
END == <<"end">>

\* ------------------------------------------------------------ tagged values
Num(n) == [t |-> "number", v |-> n]
Arr(s) == [t |-> "array", v |-> s]
Obj(r) == [t |-> "object", v |-> r]
Null == [t |-> "null", v |-> 0]
Cls(name, r) == [t |-> "class", v |-> r, cls |-> name]
Undefined == [t |-> "undefined", v |-> 0]
NaN == [t |-> "NaN", v |-> 0]

EmptyObject == <<>>

Put(f, k, v) == [x \in (DOMAIN f) \cup {k} |-> IF x = k THEN v ELSE f[x]]

Omit(f, ks) == [x \in (DOMAIN f) \ ks |-> f[x]]

\* the names of the nodes of the graphs nested in g
NestedNames(g) ==
    UNION {DOMAIN g.nodes[name].graph.nodes :
              name \in {n \in DOMAIN g.nodes : g.nodes[n].type = "graph"}}

\* { ...b, ...a }: the spread with its operands exchanged
SpreadKeepingOld(a, b) == [x \in (DOMAIN a) \cup (DOMAIN b) |-> IF x \in DOMAIN a THEN a[x] ELSE b[x]]

\* { ...a, ...b }
Spread(a, b) == [x \in (DOMAIN a) \cup (DOMAIN b) |-> IF x \in DOMAIN b THEN b[x] ELSE a[x]]

Range(s) == {s[i] : i \in DOMAIN s}

Ok(v) == [ok |-> TRUE, v |-> v]
Throw(msg) == [ok |-> FALSE, v |-> msg]

\* ------------------------------------------------------------- cloneAware
RECURSIVE cloneAware(_)
cloneAware(value) ==
    IF value.t = "class" THEN value
    ELSE IF value.t = "array" THEN Arr([i \in DOMAIN value.v |-> cloneAware(value.v[i])])
    ELSE IF value.t = "object" THEN Obj([k \in DOMAIN value.v |-> cloneAware(value.v[k])])
    ELSE value

cloneState(state) == cloneAware(Obj(state)).v

\* SERIALIZERS: the classes registerSerializer was called for
SERIALIZERS == {"SystemMessage", "UserMessage", "AgentMessage", "ToolRequest", "ToolResponse", "ToolError"}

RECURSIVE cloneThrows(_)
\* cloneAware(value) throws: serialize finds no serializer for the class of an
\* instance in an array or a plain object of the value
cloneThrows(value) ==
    IF value.t = "class" THEN value.cls \notin SERIALIZERS
    ELSE IF value.t = "array" THEN \E i \in DOMAIN value.v : cloneThrows(value.v[i])
    ELSE IF value.t = "object" THEN \E k \in DOMAIN value.v : cloneThrows(value.v[k])
    ELSE FALSE

\* `const acc = base`: an accumulator that is the caller's object
accumulatorShared(base) == [v |-> base, shared |-> TRUE]

\* `const acc = cloneAware(base)`: the object mergeState writes to, and
\* whether it is the caller's object
accumulator(base) == [v |-> cloneAware(base), shared |-> FALSE]

\* -------------------------------------------------------------- mergeState
\* A zod schema is [hasShape, shape]: an object schema has a shape mapping each
\* field name to [type, merge, schema], where type is the value type the field
\* accepts, merge names the strategy registered in
\* STATE_MERGE ("none" when nothing is registered) and schema is the field's
\* own zod schema (hasShape = FALSE for a non-object type).
NoShape == [hasShape |-> FALSE, shape |-> <<>>]
ObjectSchema(shape) == [hasShape |-> TRUE, shape |-> shape]
Field(type, merge, schema) == [type |-> type, merge |-> merge, schema |-> schema]

\* STATE_MERGE.get(...).merge(old, change) for the registered strategies
ApplyMerge(strategy, old, change) ==
    IF strategy = "add"
    THEN (IF old.t = "number" /\ change.t = "number" THEN Num(old.v + change.v) ELSE NaN)
    ELSE IF strategy = "keep" THEN old
    ELSE Arr(old.v \o change.v)

\* Object.entries of a value used as `changes`: an array shows its indices
EntriesOf(value) ==
    IF value.t = "array"
    THEN [k \in {ToString(i - 1) : i \in DOMAIN value.v} |->
              value.v[CHOOSE i \in DOMAIN value.v : ToString(i - 1) = k]]
    ELSE value.v

\* a registry lookup that finds no strategy for any field
registeredNothing(schema, key) == FALSE

\* STATE_MERGE.has(schema.shape[key])
registered(schema, key) == key \in DOMAIN schema.shape /\ schema.shape[key].merge # "none"

\* an assignment that is dropped
assignDropped(acc, key, value) == acc

\* acc[key] = value
assign(acc, key, value) == [acc EXCEPT !.v = Put(acc.v, key, value)]

RECURSIVE MergeKeys(_, _, _, _)
RECURSIVE mergeValue(_, _, _)

\* mergeState on values: base is any value, changes an object or an array
mergeValue(base, changes, schema) ==
    IF cloneThrows(base) THEN Throw("No serializer registered")
    ELSE MergeKeys(Ok(accumulator(base).v), EntriesOf(changes), schema,
                   DOMAIN EntriesOf(changes))

\* the for-loop over Object.entries(changes); keys holds the entries left
MergeKeys(acc, changes, schema, keys) ==
    IF keys = {} \/ ~acc.ok THEN acc
    ELSE LET key == CHOOSE k \in keys : TRUE
             value == changes[key]
             isObj == acc.v.t \in {"object", "class"}
             absent == ~isObj \/ key \notin DOMAIN acc.v.v \/ acc.v.v[key].t \in {"null", "undefined"}
             old == acc.v.v[key]
             set(v) == Ok([acc.v EXCEPT !.v = Put(acc.v.v, key, v)])
             setNew(v) == Ok(assign(acc.v, key, v))
             next ==
                 IF absent THEN
                     \* assignment to a property of a primitive throws in strict mode
                     IF acc.v.t \in {"object", "class"} THEN setNew(value)
                     ELSE IF acc.v.t = "array" THEN Throw("TypeError")
                     ELSE Throw("TypeError")
                 ELSE IF ~schema.hasShape THEN Throw("TypeError")
                 ELSE IF registered(schema, key)
                      THEN set(ApplyMerge(schema.shape[key].merge, old, value))
                 ELSE IF value.t = "null" THEN Throw("TypeError")
                 ELSE IF value.t = "class" THEN set(value)
                 ELSE IF value.t \in {"object", "array"} THEN
                     IF old.t = "array" THEN set(value)
                     ELSE LET sub == mergeValue(old, value,
                                         IF key \in DOMAIN schema.shape
                                         THEN schema.shape[key].schema
                                         ELSE NoShape)
                          IN IF sub.ok THEN set(sub.v) ELSE sub
                 ELSE set(value)
         IN MergeKeys(next, changes, schema, keys \ {key})

mergeState(base, changes, schema) ==
    LET r == mergeValue(Obj(base), Obj(changes), schema)
    IN IF r.ok THEN Ok(r.v.v) ELSE r

\* ---------------------------------------------------------- cursor strings
\* Array.prototype.join(".")
RECURSIVE join(_)
join(names) ==
    IF names = <<>> THEN <<>>
    ELSE IF Len(names) = 1 THEN names[1]
    ELSE names[1] \o <<".">> \o join(Tail(names))

\* String.prototype.split("."): at least one segment, also for ""
RECURSIVE split(_)
split(str) ==
    IF \E i \in DOMAIN str : str[i] = "."
    THEN LET i == CHOOSE j \in DOMAIN str :
                      str[j] = "." /\ \A k \in 1..(j - 1) : str[k] # "."
         IN <<SubSeq(str, 1, i - 1)>> \o split(SubSeq(str, i + 1, Len(str)))
    ELSE <<str>>

\* --------------------------------------------- ContextLayer, RuntimeContext
\* A RuntimeContext is [contextLayers, currentLayer, interrupted, exitMessage,
\* resuming]; a ContextLayer is [index, hasNode, currentNode, custom], hasNode
\* = FALSE standing for currentNode === undefined.  Layers are referred to by
\* their position in contextLayers (index + 1).
NewLayer(index) == [index |-> index, hasNode |-> FALSE, currentNode |-> <<>>, custom |-> <<>>]

NewRuntimeContext ==
    [contextLayers |-> <<>>, currentLayer |-> -1, interrupted |-> FALSE,
     exitMessage |-> <<>>, resuming |-> FALSE]

setCurrentNode(rt, pos, name) ==
    [rt EXCEPT !.contextLayers[pos].hasNode = TRUE,
               !.contextLayers[pos].currentNode = name]

RECURSIVE PushLayers(_, _)
PushLayers(layers, segments) ==
    IF segments = <<>> THEN layers
    ELSE PushLayers(
            Append(layers, [NewLayer(Len(layers)) EXCEPT !.hasNode = TRUE,
                                                         !.currentNode = Head(segments)]),
            Tail(segments))

unwrapCursor(rt, cursor) ==
    [rt EXCEPT !.resuming = TRUE,
               !.contextLayers = PushLayers(rt.contextLayers, split(cursor))]

\* a cursor that names the deepest layer only
wrapCursorDeepest(rt) ==
    IF rt.contextLayers = <<>> THEN <<>>
    ELSE rt.contextLayers[Len(rt.contextLayers)].currentNode

wrapCursor(rt) ==
    join([i \in DOMAIN rt.contextLayers |-> rt.contextLayers[i].currentNode])

\* a nextLayer that allocates a layer on every call
nextLayerAlwaysNew(rt) ==
    [rt EXCEPT !.contextLayers = Append(@, NewLayer(Len(@))),
               !.currentLayer = @ + 1]

\* returns the runtime after the call; the layer returned by the code is the
\* one at position currentLayer + 1 of the result
nextLayer(rt) ==
    IF rt.currentLayer < Len(rt.contextLayers) - 1
    THEN [rt EXCEPT !.currentLayer = @ + 1]
    ELSE [rt EXCEPT !.contextLayers = Append(@, NewLayer(Len(@))),
                    !.currentLayer = @ + 1]

nextLayerPos(rt) ==
    IF rt.currentLayer < Len(rt.contextLayers) - 1
    THEN rt.currentLayer + 2
    ELSE Len(rt.contextLayers) + 1

\* a removeTopLayer that pops the layer and leaves the pointer
removeTopLayerKeepingPointer(rt) ==
    [rt EXCEPT !.contextLayers = IF @ = <<>> THEN @ ELSE SubSeq(@, 1, Len(@) - 1)]

removeTopLayer(rt) ==
    [rt EXCEPT !.contextLayers = IF @ = <<>> THEN @ ELSE SubSeq(@, 1, Len(@) - 1),
               !.currentLayer = @ - 1]

markInterrupted(rt, reason) ==
    [rt EXCEPT !.interrupted = TRUE, !.exitMessage = reason]

markResumed(rt) == [rt EXCEPT !.resuming = FALSE]

\* ContextLayer.done
done(rt) == IF ~rt.interrupted THEN removeTopLayer(rt) ELSE rt

\* ContextLayer.id
RECURSIVE layerId(_, _)
layerId(rt, pos) ==
    LET index == rt.contextLayers[pos].index
    IN IF index = 0 THEN <<"ROOT">>
       ELSE layerId(rt, index) \o <<".">> \o rt.contextLayers[index].currentNode

\* ------------------------------------------------------------------ graphs
\* A graph is [kind, schema, nodes, edges, conditionalEdges, conditionalFuncs,
\* prefix, iteratorKey]; kind is "StateMachine", "NodeSequence" or "Iterator".
\* A node is [type |-> "function", func], [type |-> "interrupt", message] or
\* [type |-> "graph", graph].
ITERATOR_LOOP_NODE == <<"iterator-loop">>
INCREMENT_INDEX_NODE == <<"increment-index">>

FunctionNode(func) == [type |-> "function", func |-> func]
InterruptNode(message) == [type |-> "interrupt", message |-> message]
GraphNode(g) == [type |-> "graph", graph |-> g]
\* new StateTransformNode(schema, input, node, output)
StateTransformNode(schema, input, node, output) ==
    [type |-> "transform", schema |-> schema, input |-> input, node |-> node, output |-> output]

NewGraph(kind, schema) ==
    [kind |-> kind, schema |-> schema, nodes |-> <<>>, edges |-> <<>>,
     conditionalEdges |-> <<>>, conditionalFuncs |-> <<>>,
     prefix |-> "", iteratorKey |-> ""]

StateMachine(schema) == NewGraph("StateMachine", schema)
NodeSequence(schema) == NewGraph("NodeSequence", schema)

addNodeThrows(g, name) == name \in {START, END} \/ name \in DOMAIN g.nodes

\* an addNode that registers the node before it checks the name
addNodeUnchecked(g, name, node) == [g EXCEPT !.nodes = Put(@, name, node)]

addNode(g, name, node) ==
    IF addNodeThrows(g, name) THEN g
    ELSE [g EXCEPT !.nodes = Put(@, name, node)]

addEdge(g, from, to) == [g EXCEPT !.edges = Put(@, from, to)]

addConditionalEdgeThrows(to) == Len(to) = 0

addConditionalEdge(g, from, to, func) ==
    IF Len(to) = 0 THEN g
    ELSE [g EXCEPT !.conditionalEdges = Put(@, from, to),
                   !.conditionalFuncs = Put(@, from, func)]

\* a next that leaves the edge of the previous last node as it is
nextNoRewire(g, node) ==
    LET nodeCount == Cardinality(DOMAIN g.nodes)
        name == <<"node-" \o ToString(nodeCount)>>
        withNode == [g EXCEPT !.nodes = Put(@, name, node)]
    IN IF nodeCount = 0
       THEN [withNode EXCEPT !.edges = Put(Put(@, START, name), name, END)]
       ELSE [withNode EXCEPT !.edges = Put(@, name, END)]

\* NodeSequence.next
next(g, node) ==
    LET nodeCount == Cardinality(DOMAIN g.nodes)
        name == <<"node-" \o ToString(nodeCount)>>
        withNode == [g EXCEPT !.nodes = Put(@, name, node)]
    IN IF nodeCount = 0
       THEN [withNode EXCEPT !.edges = Put(Put(@, START, name), name, END)]
       ELSE [withNode EXCEPT !.edges =
                Put(Put(@, <<"node-" \o ToString(nodeCount - 1)>>, name), name, END)]

\* Iterator constructor followed by setLoopedNode
Iterator(schema, prefix, iteratorKey) ==
    [NewGraph("Iterator", schema) EXCEPT
        !.nodes = Put(@, INCREMENT_INDEX_NODE, FunctionNode("incrementIndex")),
        !.conditionalEdges = Put(Put(@, START, <<ITERATOR_LOOP_NODE, END>>),
                                 ITERATOR_LOOP_NODE, <<INCREMENT_INDEX_NODE, END>>),
        !.conditionalFuncs = Put(Put(@, START, "iteratorStart"),
                                 ITERATOR_LOOP_NODE, "iteratorLoop"),
        !.edges = Put(@, INCREMENT_INDEX_NODE, ITERATOR_LOOP_NODE),
        !.prefix = prefix,
        !.iteratorKey = iteratorKey]

setLoopedNode(g, loopedNode) == [g EXCEPT !.nodes = Put(@, ITERATOR_LOOP_NODE, loopedNode)]

\* --------------------------------------------------- Number() / toString()
\* Number(str) for a layer's currentNode: [nan, n]
NumberOf(str) ==
    IF Len(str) = 1 /\ \E n \in 0..NumBound : ToString(n) = str[1]
    THEN [nan |-> FALSE, n |-> CHOOSE n \in 0..NumBound : ToString(n) = str[1]]
    ELSE [nan |-> TRUE, n |-> 0]

NumberToString(x) == IF x.nan THEN <<"NaN">> ELSE <<ToString(x.n)>>

\* ------------------------------------------ stateToNodeState and its inverse
IndexOf(rt, pos) == NumberOf(rt.contextLayers[rt.contextLayers[pos].custom.indexCtx].currentNode)

stateToNodeState(g, state, rt, pos) ==
    IF g.kind # "Iterator" THEN Ok(state)
    ELSE LET index == IndexOf(rt, pos)
         IN IF g.iteratorKey \notin DOMAIN state THEN Throw("Selected iterator is not found")
            ELSE IF state[g.iteratorKey].t # "array" THEN Throw("Seletected iterator is not an array")
            ELSE IF index.nan \/ index.n + 1 \notin DOMAIN state[g.iteratorKey].v
                 THEN Throw("Item not found")
            ELSE Ok(Spread(state,
                     (g.prefix \o "Index" :> Num(index.n)) @@
                     (g.prefix \o "Item" :> state[g.iteratorKey].v[index.n + 1])))

\* a nodeStateToState that drops the item instead of writing it to the array
nodeStateToStateNoWrite(g, nodeState, rt, pos) ==
    IF g.kind # "Iterator" THEN [v |-> nodeState, rt |-> rt]
    ELSE [v |-> Omit(nodeState, {g.prefix \o "Item", g.prefix \o "Index"}), rt |-> rt]

\* returns the partial graph state and the runtime (custom.arr is written)
nodeStateToState(g, nodeState, rt, pos) ==
    IF g.kind # "Iterator" THEN [v |-> nodeState, rt |-> rt]
    ELSE LET index == IndexOf(rt, pos)
             arr == rt.contextLayers[pos].custom.arr
         IN IF g.prefix \o "Item" \in DOMAIN nodeState
            THEN [v |-> Omit(nodeState, {g.prefix \o "Item", g.prefix \o "Index"}),
                  rt |-> [rt EXCEPT !.contextLayers[pos].custom.arr =
                             IF ~index.nan /\ index.n + 1 \in DOMAIN arr.v
                             THEN [arr EXCEPT !.v[index.n + 1] = nodeState[g.prefix \o "Item"]]
                             ELSE arr]]
            ELSE [v |-> nodeState, rt |-> rt]

\* ------------------------------------------------------ decision functions
\* conditionalFuncs[node](nodeState, context)
conditionalFunc(g, func, nodeState, rt, pos) ==
    CASE func = "iteratorStart" ->
            IF Len(nodeState[g.iteratorKey].v) > 0 THEN ITERATOR_LOOP_NODE ELSE END
      [] func = "iteratorLoop" ->
            LET index == IndexOf(rt, pos)
            IN IF ~index.nan /\ index.n < Len(nodeState[g.iteratorKey].v) - 1
               THEN INCREMENT_INDEX_NODE ELSE END
      [] func = "evenCount" ->
            IF nodeState.count.v % 2 = 0 THEN <<"nodeA">> ELSE <<"nodeB">>
      [] func = "overwriteThenB" -> <<"nodeB">>
      [] OTHER -> <<func>>

\* the properties a function assigns in the object it is given, besides what
\* it returns: (state) => { state.count = 0; return {}; } as a node function
\* and (state) => { state.count = 0; return "nodeB"; } as a decision function
writes(func) ==
    IF func \in {"overwrite", "overwriteThenB"} THEN [count |-> Num(0)] ELSE EmptyObject

\* the function a node runs
funcOf(node) == IF node.type = "function" THEN node.func ELSE "none"

\* a step that hands its own state object to the node
nodeArgumentShared(state) == [v |-> state, shared |-> TRUE]

\* step: node.run(cloneAware(inputNodeState), context): the node is given a
\* copy, an object nothing else refers to
nodeArgument(state) == [v |-> cloneState(state), shared |-> FALSE]

\* transition: conditionalFuncs[currentNode](this.stateToNodeState(state,
\* context), context): a StateMachine's stateToNodeState returns `state`
\* itself, an Iterator's builds a new object
decisionArgument(g, state) == [v |-> state, shared |-> g.kind = "StateMachine"]

\* the object `state` once a function that was given `argument` has run
written(state, argument, func) ==
    IF argument.shared THEN Spread(state, writes(func)) ELSE state

\* a decision function that throws when it is called
conditionalThrows(func) == func = "throwing"

\* ------------------------------------------------------------- transition
\* a transition that looks at the conditional edges first
transitionConditionalFirst(g, state, rt, pos) ==
    LET currentNode == rt.contextLayers[pos].currentNode
    IN IF currentNode \in DOMAIN g.conditionalEdges
       THEN LET ns == stateToNodeState(g, state, rt, pos)
            IN IF ~ns.ok THEN ns
               ELSE IF conditionalThrows(g.conditionalFuncs[currentNode])
               THEN Throw("Error: decision failed")
               ELSE LET condition == conditionalFunc(g, g.conditionalFuncs[currentNode], ns.v, rt, pos)
                    IN IF condition \in Range(g.conditionalEdges[currentNode])
                       THEN Ok(setCurrentNode(rt, pos, condition))
                       ELSE Throw("No edge found for condition")
       ELSE IF currentNode \in DOMAIN g.edges
       THEN Ok(setCurrentNode(rt, pos, g.edges[currentNode]))
       ELSE Throw("No edge or conditional edge found")

\* Graph.transition: Ok(runtime) or Throw(message)
transition(g, state, rt, pos) ==
    LET currentNode == rt.contextLayers[pos].currentNode
    IN IF currentNode \in DOMAIN g.edges
       THEN Ok(setCurrentNode(rt, pos, g.edges[currentNode]))
       ELSE IF currentNode \in DOMAIN g.conditionalEdges
       THEN LET ns == stateToNodeState(g, state, rt, pos)
            IN IF ~ns.ok THEN ns
               ELSE IF conditionalThrows(g.conditionalFuncs[currentNode])
               THEN Throw("Error: decision failed")
               ELSE LET condition == conditionalFunc(g, g.conditionalFuncs[currentNode], ns.v, rt, pos)
                    IN IF condition \in Range(g.conditionalEdges[currentNode])
                       THEN Ok(setCurrentNode(rt, pos, condition))
                       ELSE Throw("No edge found for condition")
       ELSE Throw("No edge or conditional edge found")

\* the object transition was given as `state`, once transition has returned
afterTransition(g, state, rt, pos) ==
    LET currentNode == rt.contextLayers[pos].currentNode
    IN IF currentNode \notin DOMAIN g.edges /\ currentNode \in DOMAIN g.conditionalEdges
       THEN written(state, decisionArgument(g, state), g.conditionalFuncs[currentNode])
       ELSE state

\* String.prototype.includes on names: a name is the concatenation of its atoms
StringIncludes(str, sub) ==
    \E i \in 1..(Len(str) - Len(sub) + 1) : SubSeq(str, i, i + Len(sub) - 1) = sub

\* Graph.validate: TRUE when it returns without throwing
validate(g) ==
    /\ START \in DOMAIN g.edges \/ START \in DOMAIN g.conditionalEdges
    /\ \/ \E from \in DOMAIN g.edges : g.edges[from] = END
       \/ \E from \in DOMAIN g.conditionalEdges :
             \E i \in DOMAIN g.conditionalEdges[from] :
                 StringIncludes(g.conditionalEdges[from][i], END)

\* ----------------------------------------------------------- node bodies
\* state[key] read as a number: a missing field is undefined, and arithmetic
\* on undefined or NaN gives NaN
NumberAt(state, key) ==
    IF key \in DOMAIN state /\ state[key].t = "number" THEN state[key] ELSE NaN

plus(x, n) == IF x.t = "number" THEN Num(x.v + n) ELSE NaN

times(x, n) == IF x.t = "number" THEN Num(x.v * n) ELSE NaN

\* FunctionNode.run for the functions used by the graphs of this model:
\* [result, rt]
runFunction(func, state, rt, pos) ==
    CASE func = "addOne" -> [result |-> [count |-> Num(state.count.v + 1)], rt |-> rt]
      [] func = "timesTwo" -> [result |-> [loopItem |-> Num(state.loopItem.v * 2)], rt |-> rt]
      [] func = "plusOne" -> [result |-> [loopItem |-> Num(state.loopItem.v + 1)], rt |-> rt]
      [] func = "indexOnly" -> [result |-> [loopIndex |-> state.loopIndex], rt |-> rt]
      [] func = "valuePlusOne" ->
            [result |-> [value |-> plus(NumberAt(state, "value"), 1)], rt |-> rt]
      [] func = "valueTimesTwo" ->
            [result |-> [value |-> times(NumberAt(state, "value"), 2)], rt |-> rt]
      [] func = "incrementIndex" ->
            LET indexCtx == rt.contextLayers[pos].custom.indexCtx
                index == NumberOf(rt.contextLayers[indexCtx].currentNode)
            IN [result |-> EmptyObject,
                rt |-> setCurrentNode(rt, indexCtx,
                          NumberToString([index EXCEPT !.n = @ + 1]))]
      [] OTHER -> [result |-> EmptyObject, rt |-> rt]

\* an InterruptNode that interrupts whether or not the run is resuming
runInterruptAlways(node, rt) == markInterrupted(rt, node.message)

\* InterruptNode.run
runInterrupt(node, rt) ==
    IF rt.resuming THEN markResumed(rt) ELSE markInterrupted(rt, node.message)

\* NodeLike.run for a node that is not a graph
runNode(node, state, rt, pos) ==
    IF node.type = "interrupt"
    THEN [result |-> EmptyObject, rt |-> runInterrupt(node, rt)]
    ELSE runFunction(node.func, state, rt, pos)

\* error instanceof z.ZodError
IsZodError(error) == error = "ZodError"

\* -------------------------------------------------------------- variables
VARIABLES
    root,       \* the graph instance invoke is called on
    store,      \* the BaseStore: runId -> [exists, cursor, state]
    phase,      \* "idle", "running", "returned" or "threw"
    inv,        \* the running invoke call: its config and its `state` local
    runtime,    \* the RuntimeContext of the running invoke call
    stack,      \* the active Graph.run calls: [graph, context, state, input, pc]
    result,     \* what the last invoke call returned or threw
    invokes,    \* number of invoke calls made so far
    executed,   \* history: the node.run calls started by the running invoke
    history     \* history: facts about the earlier invoke calls

vars == <<root, store, phase, inv, runtime, stack, result, invokes, executed, history>>

\* ------------------------------------------------- Graph.run, step by step
\* A frame is one Graph.run call: pc = "loop" at the head of the while loop
\* of runInternal, "exit" once the loop was left after an interrupt.
Frame(g, pos, input) ==
    [graph |-> g, context |-> pos, state |-> cloneState(input), input |-> input, pc |-> "loop"]

\* Graph.run that sets the initial node also on a layer a cursor restored
defaultNodeAlways(rt, pos, name) == setCurrentNode(rt, pos, name)

defaultNode(rt, pos, name) ==
    IF ~rt.contextLayers[pos].hasNode THEN setCurrentNode(rt, pos, name) ELSE rt

\* an Iterator.run that starts at index 0 also on an index layer a cursor
\* restored
runPrologueFirstItem(g, input, rt) ==
    IF g.kind # "Iterator"
    THEN LET pos == nextLayerPos(rt)
             rt1 == defaultNode(nextLayer(rt), pos, START)
         IN Ok([rt |-> rt1, frame |-> Frame(g, pos, input)])
    ELSE IF ITERATOR_LOOP_NODE \notin DOMAIN g.nodes THEN Throw("Looped node is not set")
    ELSE LET state == cloneState(input)
             ipos == nextLayerPos(rt)
             rt1 == defaultNodeAlways(nextLayer(rt), ipos, <<"0">>)
             pos == nextLayerPos(rt1)
             rt2 == defaultNode(nextLayer(rt1), pos, START)
             custom == IF g.iteratorKey \in DOMAIN state
                       THEN [indexCtx |-> ipos, arr |-> state[g.iteratorKey]]
                       ELSE [indexCtx |-> ipos]
             rt3 == [rt2 EXCEPT !.contextLayers[pos].custom = Spread(@, custom)]
         IN Ok([rt |-> rt3, frame |-> Frame(g, pos, state)])

\* Graph.run / Iterator.run up to the call of runInternal: Ok([rt, frame])
runPrologue(g, input, rt) ==
    IF g.kind # "Iterator"
    THEN LET pos == nextLayerPos(rt)
             rt1 == defaultNode(nextLayer(rt), pos, START)
         IN Ok([rt |-> rt1, frame |-> Frame(g, pos, input)])
    ELSE IF ITERATOR_LOOP_NODE \notin DOMAIN g.nodes THEN Throw("Looped node is not set")
    ELSE LET state == cloneState(input)
             ipos == nextLayerPos(rt)
             rt1 == defaultNode(nextLayer(rt), ipos, <<"0">>)
             pos == nextLayerPos(rt1)
             rt2 == defaultNode(nextLayer(rt1), pos, START)
             custom == IF g.iteratorKey \in DOMAIN state
                       THEN [indexCtx |-> ipos, arr |-> state[g.iteratorKey]]
                       ELSE [indexCtx |-> ipos]
             rt3 == [rt2 EXCEPT !.contextLayers[pos].custom = Spread(@, custom)]
         IN Ok([rt |-> rt3, frame |-> Frame(g, pos, state)])

\* Graph.run / Iterator.run after runInternal returned: [rt, result]
runEpilogue(frame, rt) ==
    IF frame.graph.kind # "Iterator"
    THEN [rt |-> done(rt), result |-> frame.state]
    ELSE LET custom == rt.contextLayers[frame.context].custom
         IN [rt |-> done(done(rt)),
             result |-> IF "arr" \in DOMAIN custom
                        THEN Spread(frame.state, (frame.graph.iteratorKey :> cloneAware(custom.arr)))
                        ELSE frame.state]

\* runInternal without `if (context.runtime.interrupted) break`
afterNodeRunNoBreak(frame, nodeResult, rt) ==
    LET g == frame.graph
        changes == nodeStateToState(g, nodeResult, rt, frame.context)
        stepped == IF DOMAIN nodeResult = {} THEN Ok(frame.state)
                   ELSE mergeState(frame.state, changes.v, g.schema)
        rt1 == IF DOMAIN nodeResult = {} THEN rt ELSE changes.rt
    IN IF ~stepped.ok THEN stepped
       ELSE LET state == Spread(frame.state, stepped.v)
                tr == transition(g, state, rt1, frame.context)
            IN IF ~tr.ok THEN tr
               ELSE Ok([rt |-> tr.v,
                        frame |-> [frame EXCEPT !.state =
                                      afterTransition(g, state, rt1, frame.context)]])

\* The rest of one loop iteration of runInternal once node.run has returned
\* nodeResult: the tail of step (merge), the spread into state, the interrupt
\* check and the transition.  Ok([rt, frame]) or Throw(message).
afterNodeRun(frame, nodeResult, rt) ==
    LET g == frame.graph
        changes == nodeStateToState(g, nodeResult, rt, frame.context)
        stepped == IF DOMAIN nodeResult = {} THEN Ok(frame.state)
                   ELSE mergeState(frame.state, changes.v, g.schema)
        rt1 == IF DOMAIN nodeResult = {} THEN rt ELSE changes.rt
    IN IF ~stepped.ok THEN stepped
       ELSE LET state == Spread(frame.state, stepped.v)
            IN IF rt1.interrupted
               THEN Ok([rt |-> rt1, frame |-> [frame EXCEPT !.state = state, !.pc = "exit"]])
               ELSE LET tr == transition(g, state, rt1, frame.context)
                    IN IF ~tr.ok THEN tr
                       ELSE Ok([rt |-> tr.v,
                                frame |-> [frame EXCEPT !.state =
                                              afterTransition(g, state, rt1, frame.context)]])

\* ----------------------------------------------------------------- schemas
\* z.object({count: z.number()}) with or without a registered additive merge,
\* and z.object({inputs: z.array(z.number())})
CountSchema(merge) == ObjectSchema([count |-> Field("number", merge, NoShape)])
InputsSchema == ObjectSchema([inputs |-> Field("array", "none", NoShape)])

\* Iterator.getNodeSchema
getNodeSchema(g) ==
    ObjectSchema((g.prefix \o "Index" :> Field("number", "none", NoShape)) @@
                 (g.prefix \o "Item" :> g.schema.shape[g.iteratorKey]))

\* schema.parse: Ok(the input without unknown keys) or Throw("ZodError")
parse(schema, input) ==
    IF \A k \in DOMAIN schema.shape : k \in DOMAIN input /\ input[k].t = schema.shape[k].type
    THEN Ok([k \in DOMAIN schema.shape |-> input[k]])
    ELSE Throw("ZodError")

\* ------------------------------------------------------ StateTransformNode
PARENT_STATE == "__parentState"

RECURSIVE Text(_)
\* a name of the model written as one string
Text(name) == IF name = <<>> THEN "" ELSE Head(name) \o Text(Tail(name))

\* `__wrappedState_${context.id}.${context.currentNode}`
wrappedStateKey(rt, pos) ==
    "__wrappedState_" \o Text(layerId(rt, pos)) \o "." \o Text(rt.contextLayers[pos].currentNode)

\* the input functions of the tests:
\* (state) => ({ id: state.count, value: state.count })
inputTransform(input, state) ==
    IF input = "countToValue" /\ "count" \in DOMAIN state
    THEN [id |-> state.count, value |-> state.count]
    ELSE EmptyObject

\* the output functions of the tests: (state) => ({ count: state.value })
outputTransform(output, nodeState) ==
    IF output = "valueToCount" THEN [count |-> NumberAt(nodeState, "value")]
    ELSE EmptyObject

\* { ...state[wrappedStateKey] }: the spread of undefined is {}
stashOf(state, key) ==
    IF key \in DOMAIN state /\ state[key].t = "object" THEN state[key].v ELSE EmptyObject

\* StateTransformNode.run up to the call of the wrapped node: Ok(nodeState)
\* or Throw("ZodError")
transformNodeState(node, state, rt, pos) ==
    IF rt.resuming
    THEN Ok(Spread(stashOf(state, wrappedStateKey(rt, pos)), (PARENT_STATE :> Obj(state))))
    ELSE LET parsed == parse(node.schema, inputTransform(node.input, state))
         IN IF parsed.ok THEN Ok(Spread(parsed.v, (PARENT_STATE :> Obj(state))))
            ELSE parsed

\* a StateTransformNode that stashes the child state with its __parentState
stashWithParent(nodeState) == Obj(nodeState)

\* const { __parentState, ...rest } = nodeState
stash(nodeState) == Obj(Omit(nodeState, {PARENT_STATE}))

\* StateTransformNode.run once the wrapped node returned `update`: the partial
\* update of the parent state
transformReturn(node, nodeState, update, rt, key) ==
    LET merged == Spread(nodeState, update)
    IN IF rt.interrupted THEN (key :> stash(merged))
       ELSE Spread(outputTransform(node.output, merged), (key :> Undefined))

\* the catch clause of StateTransformNode.run
catchTransformError(error) ==
    IF IsZodError(error) THEN "Transformed input does not match schema" ELSE error

\* ------------------------------------------------------ graphs of the tests
\* state-machine.spec "interrupts": first -> second -> interrupt -> third
FlatMachine(schema) ==
    LET n1 == addNode(StateMachine(schema), <<"first">>, FunctionNode("addOne"))
        n2 == addNode(n1, <<"second">>, FunctionNode("addOne"))
        n3 == addNode(n2, <<"interrupt">>, InterruptNode(<<>>))
        n4 == addNode(n3, <<"third">>, FunctionNode("addOne"))
        e1 == addEdge(n4, START, <<"first">>)
        e2 == addEdge(e1, <<"first">>, <<"second">>)
        e3 == addEdge(e2, <<"second">>, <<"interrupt">>)
        e4 == addEdge(e3, <<"interrupt">>, <<"third">>)
    IN addEdge(e4, <<"third">>, END)

\* node-sequence.spec "interrupts": addOne, InterruptNode, addOne
FlatSequence(schema) ==
    next(next(next(NodeSequence(schema), FunctionNode("addOne")),
              InterruptNode(<<"paused">>)),
         FunctionNode("addOne"))

\* state-machine.spec "sub-graphs / interrupts": first -> interrupt -> second
SubMachine(schema) ==
    LET n1 == addNode(StateMachine(schema), <<"first">>, FunctionNode("addOne"))
        n2 == addNode(n1, <<"interrupt">>, InterruptNode(<<>>))
        n3 == addNode(n2, <<"second">>, FunctionNode("addOne"))
        e1 == addEdge(n3, START, <<"first">>)
        e2 == addEdge(e1, <<"first">>, <<"interrupt">>)
        e3 == addEdge(e2, <<"interrupt">>, <<"second">>)
    IN addEdge(e3, <<"second">>, END)

\* state-machine.spec "run-4 (nested graph)": first -> subgraph
NestedMachine(schema) ==
    LET n1 == addNode(StateMachine(schema), <<"first">>, FunctionNode("addOne"))
        n2 == addNode(n1, <<"subgraph">>, GraphNode(SubMachine(schema)))
        e1 == addEdge(n2, START, <<"first">>)
        e2 == addEdge(e1, <<"first">>, <<"subgraph">>)
    IN addEdge(e2, <<"subgraph">>, END)

\* a sequence that enters the same sub-graph twice, then adds one
TwiceSequence(schema) ==
    next(next(next(NodeSequence(schema), GraphNode(SubMachine(schema))),
              GraphNode(SubMachine(schema))),
         FunctionNode("addOne"))

\* iterator.spec "interrupts": timesTwo, InterruptNode, plusOne for each input
LoopIterator ==
    LET iterator == Iterator(InputsSchema, "loop", "inputs")
        looped == next(next(next(NodeSequence(getNodeSchema(iterator)),
                                 FunctionNode("timesTwo")),
                            InterruptNode(<<>>)),
                       FunctionNode("plusOne"))
    IN setLoopedNode(iterator, GraphNode(looped))

\* an iterator whose loop body returns the index it was given and no item:
\* (state) => ({ loopIndex: state.loopIndex })
IndexIterator == setLoopedNode(Iterator(InputsSchema, "loop", "inputs"), FunctionNode("indexOnly"))

\* node-sequence.spec "should run a simple node sequence": addOne three times
ThreeSequence(schema) ==
    next(next(next(NodeSequence(schema), FunctionNode("addOne")),
              FunctionNode("addOne")),
         FunctionNode("addOne"))

\* a sequence whose second node throws
ThrowingSequence(func) ==
    next(next(next(NodeSequence(CountSchema("none")), FunctionNode("addOne")),
              FunctionNode(func)),
         FunctionNode("addOne"))

\* a sequence that interrupts and whose node after the interrupt throws
InterruptThenThrow ==
    next(next(NodeSequence(CountSchema("none")), InterruptNode(<<>>)),
         FunctionNode("throwError"))

\* a state machine without an edge from START
NoStartMachine ==
    addEdge(addNode(StateMachine(CountSchema("none")), <<"first">>, FunctionNode("addOne")),
            <<"first">>, END)

\* a state machine without an edge to END
NoEndMachine ==
    addEdge(addNode(StateMachine(CountSchema("none")), <<"first">>, FunctionNode("addOne")),
            START, <<"first">>)

\* iterator.spec "should run a simple iterator": every input doubled
DoubleIterator ==
    setLoopedNode(Iterator(InputsSchema, "loop", "inputs"), FunctionNode("timesTwo"))

Merges == {"none", "add"}

RootGraphs ==
    {FlatMachine(CountSchema(m)) : m \in Merges}
    \cup {FlatSequence(CountSchema(m)) : m \in Merges}
    \cup {NestedMachine(CountSchema(m)) : m \in Merges}
    \cup {TwiceSequence(CountSchema(m)) : m \in Merges}
    \cup {ThreeSequence(CountSchema(m)) : m \in Merges}
    \cup {ThrowingSequence(func) : func \in {"throwError", "throwZod"}}
    \cup {InterruptThenThrow}
    \cup {NoStartMachine, NoEndMachine}
    \cup {LoopIterator, DoubleIterator, IndexIterator}

\* ------------------------------------------------------------------ inputs
RunIds == {"run-1"}

\* the longest array given to an Iterator whose loop body interrupts
MaxItems == 2

FreshInputs(g) ==
    IF g.kind = "Iterator"
    THEN {[inputs |-> Arr([i \in 1..n |-> Num(i)])] :
             n \in 0..(IF g = LoopIterator THEN MaxItems ELSE MaxItems + 1)}
    ELSE {[count |-> Num(n)] : n \in 0..MaxCount}

\* inputs that do not match the schema: a required field is missing
InvalidInputs(g) == {EmptyObject}

\* cursors a caller can write down without having seen an interrupt
UserCursors(g) == {name : name \in DOMAIN g.nodes}

NoResult == [exitReason |-> "none"]

NoEntry == [exists |-> FALSE]

NoCursor == [has |-> FALSE, cursor |-> <<>>]

\* inv: the config of an invoke call (mode, runId, deleteAfterEnd, resumeFrom),
\* its input, what it loaded from the store, and its `state` local
NoInvoke ==
    [mode |-> "none", runId |-> "", input |-> <<>>, state |-> <<>>,
     deleteAfterEnd |-> FALSE, variant |-> "graph", resumeFrom |-> NoCursor,
     loaded |-> NoEntry, fromInterrupt |-> FALSE]

\* JSON.parse(JSON.stringify(value)): a class instance comes back as a plain
\* object, an undefined property is left out and NaN comes back as null
RECURSIVE jsonRoundTrip(_)
jsonRoundTrip(value) ==
    IF value.t = "class" THEN Obj([k \in DOMAIN value.v |-> jsonRoundTrip(value.v[k])])
    ELSE IF value.t = "array" THEN Arr([i \in DOMAIN value.v |-> jsonRoundTrip(value.v[i])])
    ELSE IF value.t = "object"
    THEN Obj([k \in {x \in DOMAIN value.v : value.v[x].t # "undefined"} |->
                 jsonRoundTrip(value.v[k])])
    ELSE IF value.t = "NaN" THEN Null
    ELSE value

\* a store whose StoredRuns all write the row of one run id
getStoredRunShared(runId) == "run-a"

\* BaseStore.getStoredRun: the row the StoredRun of runId reads and writes
getStoredRun(runId) == runId

\* a store that keeps the row a run id already has
upsertKeepingFirst(entries, runId, entry) ==
    IF entries[runId].exists THEN entries ELSE [entries EXCEPT ![runId] = entry]

\* SQLiteStore.save (INSERT ... ON CONFLICT DO UPDATE) and SQLiteStore.delete:
\* the row of runId becomes `entry`, whatever it was
upsert(entries, runId, entry) == [entries EXCEPT ![runId] = entry]

\* SQLiteStore.save followed by what SQLiteStore.load returns
saved(cursor, state) ==
    [exists |-> TRUE, cursor |-> cursor, state |-> jsonRoundTrip(Obj(state)).v]

\* --------------------------------------------------------------------- Init
Init ==
    /\ root \in RootGraphs
    /\ store = [id \in RunIds |-> NoEntry]
    /\ phase = "idle"
    /\ inv = NoInvoke
    /\ runtime = NewRuntimeContext
    /\ stack = <<>>
    /\ result = NoResult
    /\ invokes = 0
    /\ executed = <<>>
    /\ history = [ref |-> [set |-> FALSE], chain |-> [ok |-> FALSE], before |-> {}]

NoGraphNodes(g) == \A name \in DOMAIN g.nodes : g.nodes[name].type # "graph"

GraphNodes(g) == {name \in DOMAIN g.nodes : g.nodes[name].type = "graph"}

\* the name a node of the graph registered as `name` gets when it is
\* registered in the outer graph itself
InlineName(name, inner) == name \o <<"/">> \o inner

\* where an edge to `to` leads once graph nodes are inlined: the node the
\* nested graph's START edge leads to
InlineTarget(g, to) ==
    IF to \in GraphNodes(g)
    THEN InlineName(to, g.nodes[to].graph.edges[START])
    ELSE to

\* The graph with the nodes of every nested graph registered in place of the
\* graph node: the same builder calls, addNode and addEdge, made on one graph.
\* Edges into a graph node lead to its first node, its edges to END lead
\* where the graph node's edge led.
Inline(g) ==
    LET plain == DOMAIN g.nodes \ GraphNodes(g)
        pairs == {p \in GraphNodes(g) \X NestedNames(g) :
                     p[2] \in DOMAIN g.nodes[p[1]].graph.nodes}
        inner(name) == CHOOSE p \in pairs : InlineName(p[1], p[2]) = name
        names == plain \cup {InlineName(p[1], p[2]) : p \in pairs}
    IN [g EXCEPT
          !.nodes = [name \in names |->
                        IF name \in plain THEN g.nodes[name]
                        ELSE g.nodes[inner(name)[1]].graph.nodes[inner(name)[2]]],
          !.edges = [from \in names \cup {START} |->
                        IF from \in plain \cup {START} THEN InlineTarget(g, g.edges[from])
                        ELSE LET to == g.nodes[inner(from)[1]].graph.edges[inner(from)[2]]
                             IN IF to = END THEN InlineTarget(g, g.edges[inner(from)[1]])
                                ELSE InlineName(inner(from)[1], to)]]

\* the graph an invocation runs: the root, or the root with its nested graphs
\* inlined
invoked(variant) == IF variant = "inlined" THEN Inline(root) ELSE root

\* the node registered under a name; the reference and the inlined variant
\* of a graph have every InterruptNode replaced by a node that returns {}
nodeAt(g, name) ==
    LET node == g.nodes[name]
    IN IF inv.variant # "graph" /\ node.type = "interrupt" THEN FunctionNode("noop") ELSE node

top == stack[Len(stack)]

currentNodeOf(frame) == runtime.contextLayers[frame.context].currentNode

Record(frame, node, rtAfter, input, threw) ==
    [input |-> input,
     threw |-> threw,
     path |-> layerId(runtime, frame.context) \o <<".">> \o currentNodeOf(frame),
     node |-> currentNodeOf(frame),
     depth |-> frame.context,
     type |-> node.type,
     interruptedBefore |-> runtime.interrupted,
     resumingBefore |-> runtime.resuming,
     interruptedAfter |-> rtAfter.interrupted,
     startAt |-> IF node.type = "graph"
                 THEN rtAfter.contextLayers[rtAfter.currentLayer + 1].currentNode
                 ELSE <<>>]

\* FunctionNode.run of a node function that throws: Throw(error), else Ok
runThrows(node) ==
    IF node.type # "function" THEN Ok(EmptyObject)
    ELSE CASE node.func = "throwError" -> Throw("Error: node failed")
           [] node.func = "throwZod" -> Throw("ZodError")
           [] OTHER -> Ok(EmptyObject)

\* a catch clause that rethrows every error as it is
rethrow(error) == error

\* the catch clause of invoke: a ZodError leaves as a new Error "Input does
\* not match schema: ...", any other error as it is
catchZodError(error) ==
    IF IsZodError(error) THEN "Input does not match schema" ELSE error

\* a store that saves the run when invoke fails
afterThrowSaving(entries, config) ==
    IF config.mode = "stored"
    THEN [entries EXCEPT ![config.runId] = saved(START, config.state)]
    ELSE entries

\* the store once an exception has left the run: the catch blocks of invoke
\* rethrow, and the save and delete calls of the try block are skipped
afterThrow(entries, config) == entries

\* an exception leaves invoke
Raise(message) ==
    /\ phase' = "threw"
    /\ result' = [exitReason |-> "throw", error |-> message]
    /\ stack' = <<>>

\* invoke up to the first loop iteration of the root graph
Begin(config, state, rt) ==
    LET parsed == parse(root.schema, state)
        started == runPrologue(invoked(config.variant), parsed.v, rt)
    IN /\ invokes' = invokes + 1
       /\ executed' = <<>>
       /\ IF ~parsed.ok
          THEN /\ Raise(catchZodError(parsed.v))
               /\ runtime' = rt
               /\ inv' = config
          ELSE IF ~started.ok
          THEN /\ Raise(catchZodError(started.v))
               /\ runtime' = rt
               /\ inv' = [config EXCEPT !.state = parsed.v]
          ELSE /\ phase' = "running"
               /\ runtime' = started.v.rt
               /\ stack' = <<started.v.frame>>
               /\ inv' = [config EXCEPT !.state = parsed.v]
               /\ UNCHANGED result

CanInvoke == phase \in {"idle", "returned", "threw"} /\ invokes < MaxInvokes

PathsOf(entries) == {entries[i].path : i \in DOMAIN entries}

\* history: does this call continue the run the previous call left interrupted
Continues(config, input) ==
    /\ history.chain.ok
    /\ history.chain.mode = config.mode
    /\ config.fromInterrupt
    /\ config.mode = "ephemeral" => input = result.state
    /\ config.mode = "stored" => input = EmptyObject

NextHistory(config, input, fresh) ==
    [history EXCEPT
        !.chain = IF config.variant # "graph" THEN [ok |-> FALSE]
                  ELSE IF fresh THEN [ok |-> TRUE, mode |-> config.mode, input |-> input]
                  ELSE IF Continues(config, input) THEN @
                  ELSE [ok |-> FALSE],
        !.before = IF config.fromInterrupt
                   THEN (IF inv.fromInterrupt THEN @ ELSE {}) \cup PathsOf(executed)
                   ELSE {}]

\* invoke(input, {resumeFrom, runId}) up to the first loop iteration
InvokeEphemeral(input, resumeFrom, variant) ==
    LET config == [mode |-> "ephemeral", runId |-> "test-run-id", input |-> input,
                   state |-> input, deleteAfterEnd |-> FALSE, variant |-> variant,
                   resumeFrom |-> resumeFrom, loaded |-> NoEntry,
                   fromInterrupt |-> /\ resumeFrom.has
                                     /\ result.exitReason = "interrupt"
                                     /\ resumeFrom.cursor = result.cursor]
        rt == IF resumeFrom.has /\ resumeFrom.cursor # <<>>
              THEN unwrapCursor(NewRuntimeContext, resumeFrom.cursor)
              ELSE NewRuntimeContext
    IN /\ CanInvoke
       /\ Begin(config, input, rt)
       /\ history' = NextHistory(config, input, ~resumeFrom.has)
       /\ UNCHANGED <<root, store>>

\* invoke(partialInput, {store, runId, deleteAfterEnd}) up to the first loop
\* iteration
InvokeStored(partialInput, runId, deleteAfterEnd) ==
    LET load == store[getStoredRun(runId)]
        mergedState == IF load.exists
                       THEN mergeState(partialInput, load.state, root.schema)
                       ELSE Ok(partialInput)
        config == [mode |-> "stored", runId |-> runId, input |-> partialInput,
                   state |-> partialInput, loaded |-> load,
                   deleteAfterEnd |-> deleteAfterEnd, variant |-> "graph",
                   resumeFrom |-> IF load.exists THEN [has |-> TRUE, cursor |-> load.cursor]
                                  ELSE NoCursor,
                   fromInterrupt |-> /\ load.exists
                                     /\ inv.mode = "stored" /\ inv.runId = runId
                                     /\ result.exitReason = "interrupt"
                                     /\ load.cursor = result.cursor]
        rt == IF load.exists
              THEN unwrapCursor(NewRuntimeContext, load.cursor)
              ELSE NewRuntimeContext
    IN /\ CanInvoke
       /\ IF mergedState.ok
          THEN Begin(config, mergedState.v, rt)
          ELSE /\ Raise(mergedState.v)
               /\ invokes' = invokes + 1
               /\ executed' = <<>>
               /\ runtime' = rt
               /\ inv' = config
       /\ history' = NextHistory(config, partialInput, ~load.exists)
       /\ UNCHANGED <<root, store>>

\* names every plain object answers to: properties of Object.prototype
INHERITED == {<<"constructor">>, <<"toString">>}

\* step on a name that is not a key of this.nodes: this.nodes[currentNode] is
\* undefined and step throws "Node <name> not found", or it is a property of
\* Object.prototype, which has no run method, and node.run(...) throws a
\* TypeError
lookupError(name) == IF name \in INHERITED THEN "TypeError" ELSE "Node not found"

Running == phase = "running" /\ stack # <<>>

AtLoop == Running /\ top.pc = "loop"

ReplaceTop(frame) == [stack EXCEPT ![Len(stack)] = frame]

\* runInternal at START: transition(input, context)
TransitionStart ==
    /\ AtLoop
    /\ currentNodeOf(top) = START
    /\ LET tr == transition(top.graph, top.input, runtime, top.context)
       IN IF tr.ok
          THEN /\ runtime' = tr.v
               /\ stack' = ReplaceTop([top EXCEPT !.input =
                              afterTransition(top.graph, top.input, runtime, top.context)])
               /\ UNCHANGED <<phase, result>>
          ELSE /\ Raise(catchZodError(tr.v))
               /\ UNCHANGED runtime
    /\ store' = IF phase' = "threw" THEN afterThrow(store, inv) ELSE store
    /\ UNCHANGED <<root, inv, invokes, executed, history>>

\* one loop iteration of runInternal whose node is not a graph: step, the
\* interrupt check and transition
StepNode ==
    /\ AtLoop
    /\ currentNodeOf(top) \notin {START, END}
    /\ LET name == currentNodeOf(top)
       IN IF name \notin DOMAIN top.graph.nodes
          THEN /\ Raise(catchZodError(lookupError(name)))
               /\ UNCHANGED <<runtime, executed>>
          ELSE LET node == nodeAt(top.graph, name)
                   inputNodeState == stateToNodeState(top.graph, top.state, runtime, top.context)
               IN /\ node.type \notin {"graph", "transform"}
                  /\ IF ~inputNodeState.ok
                     THEN /\ Raise(catchZodError(inputNodeState.v))
                          /\ UNCHANGED <<runtime, executed>>
                     ELSE IF ~runThrows(node).ok
                     THEN /\ executed' = Append(executed,
                                 Record(top, node, runtime, inputNodeState.v, runThrows(node).v))
                          /\ Raise(catchZodError(runThrows(node).v))
                          /\ UNCHANGED runtime
                     ELSE \E argument \in {nodeArgument(inputNodeState.v)} :
                          \E ran \in {runNode(node, argument.v, runtime, top.context)} :
                          \E after \in {afterNodeRun(
                                            [top EXCEPT !.state = written(@, argument, funcOf(node))],
                                            ran.result, ran.rt)} :
                             /\ executed' = Append(executed,
                                    Record(top, node, ran.rt, inputNodeState.v, ""))
                             /\ IF after.ok
                                THEN /\ runtime' = after.v.rt
                                     /\ stack' = ReplaceTop(after.v.frame)
                                     /\ UNCHANGED <<phase, result>>
                                ELSE /\ Raise(catchZodError(after.v))
                                     /\ runtime' = ran.rt
    /\ store' = IF phase' = "threw" THEN afterThrow(store, inv) ELSE store
    /\ UNCHANGED <<root, inv, invokes, history>>

\* step on a node that is a graph: node.run is Graph.run, entered here
EnterGraph ==
    /\ AtLoop
    /\ currentNodeOf(top) \notin {START, END}
    /\ currentNodeOf(top) \in DOMAIN top.graph.nodes
    /\ LET node == nodeAt(top.graph, currentNodeOf(top))
           inputNodeState == stateToNodeState(top.graph, top.state, runtime, top.context)
       IN /\ node.type = "graph"
          /\ IF ~inputNodeState.ok
             THEN /\ Raise(catchZodError(inputNodeState.v))
                  /\ UNCHANGED <<runtime, executed>>
             ELSE LET started == runPrologue(node.graph, cloneState(inputNodeState.v), runtime)
                  IN IF started.ok
                     THEN /\ runtime' = started.v.rt
                          /\ stack' = Append(stack, started.v.frame)
                          /\ executed' = Append(executed,
                                Record(top, node, started.v.rt, inputNodeState.v, ""))
                          /\ UNCHANGED <<phase, result>>
                     ELSE /\ Raise(catchZodError(started.v))
                          /\ UNCHANGED <<runtime, executed>>
    /\ store' = IF phase' = "threw" THEN afterThrow(store, inv) ELSE store
    /\ UNCHANGED <<root, inv, invokes, history>>

Leaving == Running /\ (top.pc = "exit" \/ currentNodeOf(top) = END)

\* the Graph.run call that called the one on top, and the node it is running
caller == stack[Len(stack) - 1]

callerNode == nodeAt(caller.graph, currentNodeOf(caller))

\* a nested Graph.run returns: its caller's step and loop iteration go on
ReturnGraph ==
    /\ Leaving
    /\ Len(stack) > 1
    /\ callerNode.type = "graph"
    /\ \E returned \in {runEpilogue(top, runtime)} :
       \E after \in {afterNodeRun(stack[Len(stack) - 1], returned.result, returned.rt)} :
          IF after.ok
          THEN /\ runtime' = after.v.rt
               /\ stack' = Append(SubSeq(stack, 1, Len(stack) - 2), after.v.frame)
               /\ UNCHANGED <<phase, result>>
          ELSE /\ Raise(catchZodError(after.v))
               /\ runtime' = returned.rt
    /\ store' = IF phase' = "threw" THEN afterThrow(store, inv) ELSE store
    /\ UNCHANGED <<root, inv, invokes, executed, history>>

\* step on a StateTransformNode that wraps a node: the whole of
\* StateTransformNode.run, then the rest of the loop iteration
StepTransform ==
    /\ AtLoop
    /\ currentNodeOf(top) \notin {START, END}
    /\ currentNodeOf(top) \in DOMAIN top.graph.nodes
    /\ LET node == nodeAt(top.graph, currentNodeOf(top))
           inputNodeState == stateToNodeState(top.graph, top.state, runtime, top.context)
           key == wrappedStateKey(runtime, top.context)
       IN /\ node.type = "transform"
          /\ node.node.type # "graph"
          /\ inputNodeState.ok
          /\ \E nodeState \in {transformNodeState(node, cloneState(inputNodeState.v),
                                                  runtime, top.context)} :
                IF ~nodeState.ok
                THEN /\ executed' = Append(executed,
                            Record(top, node, runtime, inputNodeState.v,
                                   catchTransformError(nodeState.v)))
                     /\ Raise(catchZodError(catchTransformError(nodeState.v)))
                     /\ UNCHANGED runtime
                ELSE \E ran \in {runNode(node.node, cloneState(nodeState.v), runtime,
                                         top.context)} :
                     \E after \in {afterNodeRun(top,
                                       transformReturn(node, nodeState.v, ran.result, ran.rt, key),
                                       ran.rt)} :
                        /\ executed' = Append(executed,
                               Record(top, node, ran.rt, inputNodeState.v, ""))
                        /\ IF after.ok
                           THEN /\ runtime' = after.v.rt
                                /\ stack' = ReplaceTop(after.v.frame)
                                /\ UNCHANGED <<phase, result>>
                           ELSE /\ Raise(catchZodError(after.v))
                                /\ runtime' = ran.rt
    /\ store' = IF phase' = "threw" THEN afterThrow(store, inv) ELSE store
    /\ UNCHANGED <<root, inv, invokes, history>>

\* step on a StateTransformNode that wraps a graph: StateTransformNode.run up
\* to this.node.run, which is Graph.run, entered here
EnterTransform ==
    /\ AtLoop
    /\ currentNodeOf(top) \notin {START, END}
    /\ currentNodeOf(top) \in DOMAIN top.graph.nodes
    /\ LET node == nodeAt(top.graph, currentNodeOf(top))
           inputNodeState == stateToNodeState(top.graph, top.state, runtime, top.context)
       IN /\ node.type = "transform"
          /\ node.node.type = "graph"
          /\ inputNodeState.ok
          /\ \E nodeState \in {transformNodeState(node, cloneState(inputNodeState.v),
                                                  runtime, top.context)} :
                IF ~nodeState.ok
                THEN /\ executed' = Append(executed,
                            Record(top, node, runtime, inputNodeState.v,
                                   catchTransformError(nodeState.v)))
                     /\ Raise(catchZodError(catchTransformError(nodeState.v)))
                     /\ UNCHANGED runtime
                ELSE \E started \in {runPrologue(node.node.graph, cloneState(nodeState.v),
                                                 runtime)} :
                        IF started.ok
                        THEN /\ runtime' = started.v.rt
                             /\ stack' = Append(stack, started.v.frame)
                             /\ executed' = Append(executed,
                                   Record(top, node, started.v.rt, inputNodeState.v, ""))
                             /\ UNCHANGED <<phase, result>>
                        ELSE /\ Raise(catchZodError(started.v))
                             /\ UNCHANGED <<runtime, executed>>
    /\ store' = IF phase' = "threw" THEN afterThrow(store, inv) ELSE store
    /\ UNCHANGED <<root, inv, invokes, history>>

\* the graph wrapped by a StateTransformNode returns: the rest of
\* StateTransformNode.run, then its caller's step and loop iteration go on
ReturnTransform ==
    /\ Leaving
    /\ Len(stack) > 1
    /\ callerNode.type = "transform"
    /\ \E returned \in {runEpilogue(top, runtime)} :
       \E after \in {afterNodeRun(caller,
                         transformReturn(callerNode, top.input, returned.result, returned.rt,
                                         wrappedStateKey(returned.rt, caller.context)),
                         returned.rt)} :
          IF after.ok
          THEN /\ runtime' = after.v.rt
               /\ stack' = Append(SubSeq(stack, 1, Len(stack) - 2), after.v.frame)
               /\ UNCHANGED <<phase, result>>
          ELSE /\ Raise(catchZodError(after.v))
               /\ runtime' = returned.rt
    /\ store' = IF phase' = "threw" THEN afterThrow(store, inv) ELSE store
    /\ UNCHANGED <<root, inv, invokes, executed, history>>

\* a stored mode whose deleteAfterEnd also deletes an interrupted run
persistDeleting(entry, config, interrupted, cursor, finalState) ==
    IF config.deleteAfterEnd THEN NoEntry
    ELSE IF interrupted THEN saved(cursor, finalState)
    ELSE saved(END, finalState)

\* what invoke in stored mode leaves under runId once the run returned:
\* storedRun.save(wrapCursor(), finalState), storedRun.delete() or
\* storedRun.save(END, finalState)
persist(entry, config, interrupted, cursor, finalState) ==
    IF interrupted THEN saved(cursor, finalState)
    ELSE IF config.deleteAfterEnd THEN NoEntry
    ELSE saved(END, finalState)

\* the root Graph.run returns: invoke builds its result and, in stored mode,
\* saves or deletes the run
ReturnInvoke ==
    /\ Leaving
    /\ Len(stack) = 1
    /\ LET returned == runEpilogue(top, runtime)
           finalState == Spread(inv.state, returned.result)
           cursor == wrapCursor(returned.rt)
       IN /\ runtime' = returned.rt
          /\ stack' = <<>>
          /\ phase' = "returned"
          /\ result' = IF returned.rt.interrupted
                       THEN [exitReason |-> "interrupt", runId |-> inv.runId,
                             state |-> finalState, cursor |-> cursor,
                             exitMessage |-> returned.rt.exitMessage]
                       ELSE [exitReason |-> "end", runId |-> inv.runId, state |-> finalState]
          /\ store' = IF inv.mode = "stored"
                      THEN upsert(store, getStoredRun(inv.runId),
                                  persist(store[getStoredRun(inv.runId)], inv,
                                          returned.rt.interrupted, cursor, finalState))
                      ELSE store
          /\ history' = IF inv.variant = "reference" /\ ~returned.rt.interrupted
                        THEN [history EXCEPT !.ref = [set |-> TRUE, input |-> inv.state,
                                                      state |-> finalState]]
                        ELSE history
    /\ UNCHANGED <<root, inv, invokes, executed>>

Invoke ==
    \/ \E input \in FreshInputs(root) \cup InvalidInputs(root) :
          InvokeEphemeral(input, NoCursor, "graph")
    \/ /\ invokes = 0
       /\ \E input \in FreshInputs(root) : InvokeEphemeral(input, NoCursor, "reference")
    \/ /\ result.exitReason = "interrupt"
       /\ \E input \in FreshInputs(root) \cup {result.state} :
             InvokeEphemeral(input, [has |-> TRUE, cursor |-> result.cursor], "graph")
    \/ \E input \in FreshInputs(root), cursor \in UserCursors(root) :
             InvokeEphemeral(input, [has |-> TRUE, cursor |-> cursor], "graph")
    \/ /\ phase = "returned"
       /\ inv.variant = "reference"
       /\ root.kind # "Iterator"
       /\ ~NoGraphNodes(root)
       /\ InvokeEphemeral(inv.input, NoCursor, "inlined")

InvokeWithStore ==
    \E partialInput \in FreshInputs(root) \cup {EmptyObject}, runId \in RunIds,
       deleteAfterEnd \in BOOLEAN :
          InvokeStored(partialInput, runId, deleteAfterEnd)

Next ==
    \/ Invoke
    \/ InvokeWithStore
    \/ TransitionStart
    \/ StepNode
    \/ EnterGraph
    \/ ReturnGraph
    \/ ReturnInvoke

Spec == Init /\ [][Next]_vars

\* ------------------------------------------------ cursors written by callers
\* An eighth specification: the invocations of Spec and, besides, invocations
\* whose resumeFrom is any string: two node names joined by ".", a name the
\* graph does not have, the name of a property every object has.
WrittenCursors(g) ==
    {a \o <<".">> \o b : a, b \in DOMAIN g.nodes}
    \cup {<<"missing">>}
    \cup INHERITED

InvokeWithCursor ==
    \E input \in FreshInputs(root), cursor \in WrittenCursors(root) :
        InvokeEphemeral(input, [has |-> TRUE, cursor |-> cursor], "graph")

CursorInvokeNext ==
    \/ Next
    \/ InvokeWithCursor

CursorInvokeSpec == Init /\ [][CursorInvokeNext]_vars

\* ------------------------------------------------------------------ claims
Returned == phase = "returned"

Threw == phase = "threw"

\* C1: once a node's run has set the interrupted flag, no further node's run
\* is started at any nesting depth, the layer of the interrupting node keeps
\* that node as its currentNode, and invoke returns a result with exitReason
\* "interrupt" instead of throwing.
C1_InterruptStopsRun ==
    /\ \A i \in DOMAIN executed :
          /\ ~executed[i].interruptedBefore
          /\ executed[i].interruptedAfter =>
                /\ i = Len(executed)
                /\ executed[i].depth <= Len(runtime.contextLayers)
                /\ runtime.contextLayers[executed[i].depth].currentNode = executed[i].node
    /\ runtime.interrupted =>
          /\ ~Threw
          /\ \E i \in DOMAIN executed : executed[i].interruptedAfter
          /\ Returned => result.exitReason = "interrupt"
    /\ Returned /\ result.exitReason = "interrupt" => runtime.interrupted

\* an invoke returned after an InterruptNode nested in a sub-graph interrupted
C1_Witness ==
    /\ Returned
    /\ result.exitReason = "interrupt"
    /\ Len(executed) >= 3
    /\ executed[Len(executed)].interruptedAfter
    /\ executed[Len(executed)].depth >= 2

\* the running or returned invoke closes a chain of invocations that began
\* with a fresh ephemeral invoke on `input` and resumed every interrupt from
\* the returned cursor with the returned state
EphemeralChainEnded ==
    /\ Returned
    /\ inv.mode = "ephemeral"
    /\ inv.variant = "graph"
    /\ history.chain.ok
    /\ result.exitReason = "end"

\* C2: an invocation interrupted at an InterruptNode and resumed with
\* resumeFrom = the returned cursor and input = the returned state ends with
\* the final state the same graph produces from the same initial input when
\* the InterruptNode does nothing, whatever merge strategies it registers.
C2_ResumeEqualsUninterrupted ==
    EphemeralChainEnded /\ history.ref.set /\ history.ref.input = history.chain.input
        => result.state = history.ref.state

\* the position paths a cursor names: ROOT.s1, ROOT.s1.s2, ... for its segments
RECURSIVE Prefixes(_)
Prefixes(segments) ==
    IF segments = <<>> THEN {}
    ELSE Prefixes(SubSeq(segments, 1, Len(segments) - 1))
         \cup {<<"ROOT">> \o <<".">> \o join(segments)}

ExecutedAt(depth) == {i \in DOMAIN executed : executed[i].depth = depth}

FirstAt(depth) == CHOOSE i \in ExecutedAt(depth) : \A j \in ExecutedAt(depth) : i <= j

\* C3: when invoke is resumed from the cursor an interrupted invocation
\* returned, the first node executed at each layer is the node named by that
\* layer's cursor segment, no node that precedes it on the path from START is
\* executed again, and the InterruptNode at the cursor position does not set
\* the interrupted flag again; [addOne, InterruptNode, addOne] resumed at
\* "node-1" with count 0 ends with count 1.
C3_ResumeStartsAtCursor ==
    inv.fromInterrupt /\ phase # "idle" =>
        LET segments == split(inv.resumeFrom.cursor)
            deepest == Len(segments)
        IN /\ \A d \in 1..deepest :
                 ExecutedAt(d) # {} => executed[FirstAt(d)].node = segments[d]
           /\ \A i \in DOMAIN executed :
                 executed[i].path \in history.before =>
                     /\ executed[i].path \in Prefixes(segments)
                     /\ i = FirstAt(executed[i].depth)
           /\ ExecutedAt(deepest) # {} =>
                 /\ executed[FirstAt(deepest)].type = "interrupt"
                 /\ ~executed[FirstAt(deepest)].interruptedAfter
           /\ Returned => ExecutedAt(deepest) # {}
           /\ /\ root = FlatSequence(CountSchema("none"))
              /\ inv.state = [count |-> Num(0)]
              /\ Returned
              => result.exitReason = "end" /\ result.state = [count |-> Num(1)]

\* a resumed invocation re-entered a sub-graph at its interrupt and ended
C3_Witness ==
    /\ inv.fromInterrupt
    /\ Returned
    /\ result.exitReason = "end"
    /\ Len(split(inv.resumeFrom.cursor)) >= 2
    /\ executed[FirstAt(Len(split(inv.resumeFrom.cursor)))].type = "interrupt"
    /\ Len(executed) >= 3
    /\ history.before # {}

Interrupted == Returned /\ result.exitReason = "interrupt"

LastAt(depth) == CHOOSE i \in ExecutedAt(depth) : \A j \in ExecutedAt(depth) : i >= j

\* the layer at this depth belongs to a graph call whose current node is a
\* nested graph registered under `name`
RegisteredGraphAt(depth, name) ==
    /\ ExecutedAt(depth) # {}
    /\ executed[LastAt(depth)].type = "graph"
    /\ executed[LastAt(depth)].node = name

\* the layer at this depth is the index layer of the root Iterator and `name`
\* is the index of the item the iteration is at
IteratorIndexAt(depth, name) ==
    /\ root.kind = "Iterator"
    /\ depth = 1
    /\ ExecutedAt(depth) = {}
    /\ LET first == IF inv.resumeFrom.has
                    THEN NumberOf(split(inv.resumeFrom.cursor)[1]).n
                    ELSE 0
           increments == Cardinality({i \in DOMAIN executed :
                                         executed[i].node = INCREMENT_INDEX_NODE})
       IN name = <<ToString(first + increments)>>

\* what every interrupt cursor satisfies: one segment per active layer, the
\* deepest one naming the interrupting node
CursorJoinsLayers ==
    LET segments == split(result.cursor)
        layers == runtime.contextLayers
        n == Len(layers)
    IN /\ n >= 1
       /\ result.cursor = join([d \in 1..n |-> layers[d].currentNode])
       /\ Len(segments) = n
       /\ \A d \in 1..n : segments[d] = layers[d].currentNode
       /\ executed # <<>>
       /\ executed[Len(executed)].type = "interrupt"
       /\ executed[Len(executed)].depth = n
       /\ executed[Len(executed)].node = segments[n]

\* C4 as stated: the interrupt cursor is the dot-join, root first, of the
\* currentNode of every active layer; every enclosing layer contributes the
\* name under which the nested graph is registered and the deepest layer the
\* interrupting node's name, so there are as many segments as active layers.
C4_CursorNamesRegisteredGraphs ==
    Interrupted =>
        /\ CursorJoinsLayers
        /\ \A d \in 1..(Len(runtime.contextLayers) - 1) :
              RegisteredGraphAt(d, split(result.cursor)[d])

\* C4 amended: the same, except that the auxiliary index layer of an Iterator
\* contributes the index of the current item instead of a registered name.
C4_CursorNamesEveryLayer ==
    Interrupted =>
        /\ CursorJoinsLayers
        /\ \A d \in 1..(Len(runtime.contextLayers) - 1) :
              \/ RegisteredGraphAt(d, split(result.cursor)[d])
              \/ IteratorIndexAt(d, split(result.cursor)[d])

\* the Iterator interrupted in the iteration of its second item
C4_Witness ==
    /\ Interrupted
    /\ result.cursor = <<"1", ".">> \o ITERATOR_LOOP_NODE \o <<".", "node-1">>
    /\ Len(runtime.contextLayers) = 3

\* the graph whose run started the j-th executed node: the root at depth 1,
\* else the nested graph the last depth-1 node before j stands for
GraphOfEntry(j) ==
    IF executed[j].depth = 1 THEN root
    ELSE LET outer == CHOOSE i \in 1..(j - 1) :
                         /\ executed[i].depth = 1
                         /\ \A k \in (i + 1)..(j - 1) : executed[k].depth # 1
         IN root.nodes[executed[outer].node].graph

LastOuterBefore(j) ==
    CHOOSE i \in 1..(j - 1) :
        executed[i].depth = 1 /\ \A k \in (i + 1)..(j - 1) : executed[k].depth # 1

\* the invoke was resumed from a two-segment cursor "g.i" that an interrupt
\* inside the nested graph g returned
ResumedInNestedGraph ==
    /\ inv.fromInterrupt
    /\ phase # "idle"
    /\ Len(split(inv.resumeFrom.cursor)) = 2

\* C5: resumed from the cursor "g.i", the root enters the nested graph g so
\* that the nested graph starts at node i and not at its START, the nested
\* graph runs its remaining nodes to END, the root continues with the
\* successors of g, and every nested graph entered later starts at START.
C5_NestedResume ==
    ResumedInNestedGraph =>
        LET g == split(inv.resumeFrom.cursor)[1]
            i == split(inv.resumeFrom.cursor)[2]
        IN /\ executed # <<>> =>
                 /\ executed[1].depth = 1
                 /\ executed[1].node = g
                 /\ executed[1].type = "graph"
                 /\ executed[1].startAt = i
           /\ \A j \in DOMAIN executed :
                 j > 1 /\ executed[j].type = "graph" => executed[j].startAt = START
           /\ \A j \in DOMAIN executed : j > 1 =>
                 LET prev == executed[j - 1]
                     this == executed[j]
                 IN /\ prev.depth = this.depth =>
                          this.node = GraphOfEntry(j).edges[prev.node]
                    /\ prev.depth < this.depth =>
                          /\ prev.type = "graph"
                          /\ this.depth = prev.depth + 1
                          /\ this.node = prev.startAt \/ 
                                (prev.startAt = START /\ this.node = GraphOfEntry(j).edges[START])
                    /\ prev.depth > this.depth =>
                          /\ GraphOfEntry(j - 1).edges[prev.node] = END
                          /\ this.node = root.edges[executed[LastOuterBefore(j)].node]
           /\ Returned /\ result.exitReason = "end" =>
                 /\ executed # <<>>
                 /\ root.edges[executed[LastAt(1)].node] = END
                 /\ GraphOfEntry(Len(executed)).edges[executed[Len(executed)].node] = END

\* resumed inside the first nested graph, the run went on into the second
\* nested graph, which started at START
C5_Witness ==
    /\ ResumedInNestedGraph
    /\ Returned
    /\ Len(executed) >= 5
    /\ executed[1].startAt = <<"interrupt">>
    /\ \E j \in DOMAIN executed :
          j > 1 /\ executed[j].type = "graph" /\ executed[j].startAt = START

\* C6: an InterruptNode passes through without interrupting only when it is
\* the node at the exact position named by the resume cursor; executed at any
\* other position, also as the first InterruptNode of a resumed invocation,
\* it sets the interrupted flag.
C6_PassThroughOnlyAtCursor ==
    \A i \in DOMAIN executed :
        executed[i].type = "interrupt" /\ ~executed[i].interruptedAfter =>
            /\ inv.resumeFrom.has
            /\ executed[i].path = <<"ROOT", ".">> \o inv.resumeFrom.cursor

\* C7: after a persisted invoke returned, the store entry of the run is
\* (result.cursor, result.state) when the result is an interrupt, whatever
\* deleteAfterEnd, ("end", result.state) when the result is an end and
\* deleteAfterEnd is not set, and absent when it is an end and deleteAfterEnd
\* is set.
C7_StoreAfterInvoke ==
    Returned /\ inv.mode = "stored" =>
        store[inv.runId] =
            IF result.exitReason = "interrupt"
            THEN [exists |-> TRUE, cursor |-> result.cursor, state |-> result.state]
            ELSE IF inv.deleteAfterEnd THEN NoEntry
            ELSE [exists |-> TRUE, cursor |-> END, state |-> result.state]

\* a persisted invoke with deleteAfterEnd interrupted and left its entry
C7_Witness ==
    /\ Returned
    /\ inv.mode = "stored"
    /\ inv.deleteAfterEnd
    /\ result.exitReason = "interrupt"
    /\ store[inv.runId].exists
    /\ executed # <<>>

\* invoke({}, {store, runId}) on the run the previous persisted invoke left
\* interrupted
StoredResume ==
    /\ inv.mode = "stored"
    /\ inv.fromInterrupt
    /\ inv.input = EmptyObject
    /\ phase \in {"running", "returned"}

\* C8: after a persisted invoke that interrupted, invoke({}, {store, runId})
\* resumes from the stored cursor with the stored state: it executes only
\* nodes after the interrupt position, ends with the final state of an
\* uninterrupted run, and leaves the entry at "end", or deleted if
\* deleteAfterEnd is set.
C8_StoredResume ==
    StoredResume =>
        LET segments == split(inv.loaded.cursor)
        IN /\ inv.state = inv.loaded.state
           /\ \A d \in 1..Len(segments) :
                 ExecutedAt(d) # {} => executed[FirstAt(d)].node = segments[d]
           /\ \A i \in DOMAIN executed :
                 executed[i].path \in history.before =>
                     executed[i].path \in Prefixes(segments)
           /\ Returned /\ result.exitReason = "end" =>
                 /\ store[inv.runId] = IF inv.deleteAfterEnd THEN NoEntry
                                       ELSE saved(END, result.state)
                 /\ history.chain.ok /\ history.ref.set
                       /\ history.ref.input = history.chain.input
                    => result.state = history.ref.state

\* invoke({}, {store, runId}) on a run whose stored cursor is "end"
ReinvokeEnded ==
    /\ inv.mode = "stored"
    /\ inv.loaded.exists
    /\ inv.loaded.cursor = END
    /\ inv.input = EmptyObject
    /\ ~inv.deleteAfterEnd
    /\ phase # "idle"

\* C9: invoke({}, {store, runId}) on a run whose stored cursor is "end"
\* executes no node, returns exitReason "end" with the stored state and
\* leaves the store entry as it was.
C9_ReinvokeEndedRun ==
    ReinvokeEnded =>
        /\ executed = <<>>
        /\ ~Threw
        /\ Returned =>
              /\ result.exitReason = "end"
              /\ result.state = inv.loaded.state
              /\ store[inv.runId] = inv.loaded

\* C10: a persisted invoke with a non-empty partial input on an existing run
\* starts from the stored state overridden by the partial input: a field
\* without merge strategy that both carry takes the value of the input.
C10_InputOverridesStored ==
    /\ inv.mode = "stored"
    /\ inv.loaded.exists
    /\ phase \in {"running", "returned"}
    => \A k \in DOMAIN root.schema.shape :
          root.schema.shape[k].merge = "none" =>
              inv.state[k] = IF k \in DOMAIN inv.input THEN inv.input[k]
                             ELSE inv.loaded.state[k]

\* the input of the invoke, merged with the loaded state in stored mode
MergedInput ==
    IF inv.mode = "stored" /\ inv.loaded.exists
    THEN mergeState(inv.input, inv.loaded.state, root.schema)
    ELSE Ok(inv.input)

\* the (merged) input of the running or finished invoke fails schema.parse
InputRejected ==
    /\ inv.mode # "none"
    /\ phase # "idle"
    /\ MergedInput.ok
    /\ ~parse(root.schema, MergedInput.v).ok

\* C11: in both modes, when the (merged) input fails schema validation invoke
\* throws an error whose message starts with "Input does not match schema",
\* not the raw validator error; no node's run is called and in stored mode
\* nothing is saved to or deleted from the store.
C11_InputRejected ==
    InputRejected =>
        /\ Threw
        /\ result.error = "Input does not match schema"
        /\ ~IsZodError(result.error)
        /\ executed = <<>>
        /\ inv.mode = "stored" => store[inv.runId] = inv.loaded

\* a stored-mode invoke with an input that lacks a required field threw
C11_Witness ==
    /\ InputRejected
    /\ Threw
    /\ inv.mode = "stored"
    /\ inv.input = EmptyObject
    /\ ~parse(root.schema, inv.input).ok

\* C12: any error thrown by a node's run, whatever its type, leaves invoke as
\* that same error, not wrapped or translated, and the node is not retried.
C12_NodeErrorUnchanged ==
    \A i \in DOMAIN executed :
        executed[i].threw # "" =>
            /\ i = Len(executed)
            /\ Threw
            /\ result.error = executed[i].threw

\* C15: invoke never runs a node of a graph that validate() rejects: no
\* node.run is recorded during an invocation of such a graph.
C15_InvalidGraphRunsNoNode ==
    ~validate(root) => executed = <<>>

\* the name next gives its (i+1)-th node
NodeName(i) == <<"node-" \o ToString(i)>>

FreshRun == phase # "idle" /\ ~inv.resumeFrom.has /\ inv.variant # "inlined"

\* the node.run calls made by the root graph's own loop
RootEntries == SelectSeq(executed, LAMBDA e : e.depth = 1)

\* the update node-i returns for state s, merged into s
Stepped(i, s) ==
    LET node == nodeAt(root, NodeName(i))
        update == IF node.type = "function"
                  THEN runFunction(node.func, s, runtime, 1).result
                  ELSE EmptyObject
        merged == mergeState(s, update, root.schema).v
    IN IF DOMAIN update = {} THEN s
       ELSE [x \in DOMAIN s \cup DOMAIN merged |->
                IF x \in DOMAIN merged THEN merged[x] ELSE s[x]]

RECURSIVE SeqState(_)
\* the input with the updates of node-0 .. node-(i-1) merged into it in turn
SeqState(i) == IF i = 0 THEN inv.state ELSE Stepped(i - 1, SeqState(i - 1))

\* C18: within one invocation that starts at START, the loop of a NodeSequence
\* of k nodes runs node-0, node-1, .. in insertion order, each at most once
\* and none after a node that interrupted or threw; each node of a sequence of
\* plain nodes receives the input with the updates of all earlier nodes merged
\* into it; a run that ends with exitReason "end" has run all k nodes and
\* returns the state after the k-th update (three nodes adding 1 to count
\* turn {count: 0} into {count: 3}).
C18_SequenceOrder ==
    root.kind = "NodeSequence" /\ FreshRun =>
        LET k == Cardinality(DOMAIN root.nodes)
        IN /\ Len(RootEntries) <= k
           /\ \A i \in DOMAIN RootEntries :
                 /\ RootEntries[i].node = NodeName(i - 1)
                 /\ NoGraphNodes(root) => RootEntries[i].input = SeqState(i - 1)
                 /\ (RootEntries[i].interruptedAfter \/ RootEntries[i].threw # "")
                       => i = Len(RootEntries)
           /\ Returned /\ result.exitReason = "end" =>
                 /\ Len(RootEntries) = k
                 /\ NoGraphNodes(root) => result.state = SeqState(k)
           /\ (/\ Returned
               /\ root = ThreeSequence(CountSchema("none"))
               /\ inv.state = [count |-> Num(0)]) =>
                 /\ result.exitReason = "end"
                 /\ result.state = [count |-> Num(3)]

\* the three-node sequence of the test ended with {count: 3}
C18_Witness ==
    /\ Returned
    /\ FreshRun
    /\ root = ThreeSequence(CountSchema("none"))
    /\ inv.state = [count |-> Num(0)]
    /\ Len(RootEntries) = 3
    /\ RootEntries[3].input = [count |-> Num(2)]
    /\ result.state = [count |-> Num(3)]

\* C19: a graph used as a node is transparent: invoked on the same input,
\* a graph with a nested graph and the graph with the nested graph's nodes
\* inlined end with the same state, whatever merge strategies the schema
\* registers.
C19_NestedEqualsInlined ==
    (/\ Returned
     /\ inv.variant = "inlined"
     /\ history.ref.set
     /\ history.ref.input = inv.state)
        => result.state = history.ref.state

\* the graph call on top of the stack completes in this step and its layer
\* is removed
LayerRemoved == Len(runtime'.contextLayers) < Len(runtime.contextLayers)

\* the layers of the graph call on top of the stack: its own and, for an
\* Iterator, the index layer below it
LayersOf(frame) ==
    IF frame.graph.kind = "Iterator" THEN {frame.context - 1, frame.context}
    ELSE {frame.context}

\* C36: when an invocation returns "end" every layer created or rebuilt during
\* it has been removed (empty stack, pointer -1); when it returns "interrupt"
\* the layers down to the interrupting node are all there; and each removal
\* pops the layers of the graph call that completes.
C36_LayersRemovedAtEnd ==
    /\ [](phase = "returned" /\ result.exitReason = "end" =>
             runtime.contextLayers = <<>> /\ runtime.currentLayer = -1)
    /\ [](phase = "returned" /\ result.exitReason = "interrupt" /\ executed # <<>> =>
             Len(runtime.contextLayers) >= executed[Len(executed)].depth)
    /\ [][LayerRemoved /\ stack # <<>> =>
             \A pos \in DOMAIN runtime.contextLayers :
                 pos \in LayersOf(top) <=> pos > Len(runtime'.contextLayers)]_vars

\* the loop of a graph call stands at a name that is neither START nor END
\* nor a key of the graph's node map
AtMissingNode ==
    /\ AtLoop
    /\ currentNodeOf(top) \notin {START, END} \cup DOMAIN top.graph.nodes

\* C38: when the current node name at a layer is neither START nor END nor a
\* key of the node map, step throws "Node <name> not found" before any node's
\* run is called, and invoke fails with that error instead of returning.
C38_MissingNodeFails ==
    [][AtMissingNode =>
          /\ phase' = "threw"
          /\ result'.error = "Node not found"
          /\ executed' = executed]_vars

\* a node threw during a persisted invoke
NodeThrewStored ==
    /\ phase = "threw"
    /\ inv.mode = "stored"
    /\ executed # <<>>
    /\ executed[Len(executed)].threw # ""

\* C39: when a node throws during a persisted invoke no save or delete is
\* issued: the store entry of the run id is what it was when the call loaded
\* it, absent or present with the same cursor and state.
C39_ThrowLeavesStore ==
    NodeThrewStored => store[inv.runId] = inv.loaded

C39_Witness ==
    /\ NodeThrewStored
    /\ inv.loaded.exists
    /\ store[inv.runId] = inv.loaded

\* ------------------------------------------------ invocations of an Iterator
\* A third specification: an Iterator whose loop body does not interrupt (the
\* doubling function, or the sequence timesTwo, no-op, plusOne) is invoked on
\* fresh inputs.  The steps of a call are continuations of resolved promises
\* on the event loop, which runs every such continuation: a step that stays
\* enabled is taken.
IteratorInit == Init /\ root.kind = "Iterator"

InvokeIterator ==
    \E input \in FreshInputs(root) : InvokeEphemeral(input, NoCursor, "reference")

RunStep ==
    \/ TransitionStart
    \/ StepNode
    \/ EnterGraph
    \/ ReturnGraph
    \/ ReturnInvoke

IteratorNext ==
    \/ InvokeIterator
    \/ RunStep

IteratorSpec == IteratorInit /\ [][IteratorNext]_vars /\ WF_vars(RunStep)

\* the node.run calls of the loop body made by the Iterator's own loop
LoopEntries == SelectSeq(executed, LAMBDA e : e.node = ITERATOR_LOOP_NODE /\ e.depth = 2)

\* the loop body as a function of the item
LoopBody(x) ==
    IF root = DoubleIterator THEN 2 * x
    ELSE IF root = LoopIterator THEN 2 * x + 1
    ELSE x

IteratorItems == IF phase = "idle" THEN <<>> ELSE inv.state.inputs.v

IteratorCalled == phase # "idle" /\ Len(IteratorItems) >= 1

IteratorRun ==
    IteratorCalled =>
        /\ ~Threw
        /\ Len(LoopEntries) <= Len(IteratorItems)
        /\ \A i \in DOMAIN LoopEntries :
              /\ LoopEntries[i].input.loopIndex = Num(i - 1)
              /\ LoopEntries[i].input.loopItem = IteratorItems[i]
        /\ Returned =>
              /\ result.exitReason = "end"
              /\ Len(LoopEntries) = Len(IteratorItems)
              /\ result.state.inputs.t = "array"
              /\ Len(result.state.inputs.v) = Len(IteratorItems)
              /\ \A i \in DOMAIN IteratorItems :
                    result.state.inputs.v[i] = Num(LoopBody(IteratorItems[i].v))

\* C20: invoked on an array of length n >= 1, an Iterator whose loop body is
\* a deterministic function f of the item and never interrupts ends with
\* exitReason "end", having run the loop body exactly n times with index 0, 1,
\* .., n-1 in that order on the original items, and returns an array of
\* length n whose element i is f(original element i); the call never throws
\* and always returns.
C20_IteratorMaps ==
    /\ []IteratorRun
    /\ (IteratorCalled /\ phase = "running") ~> Returned

\* [1, 2, 3] doubled gave [2, 4, 6]
C20_Witness ==
    /\ Returned
    /\ root = DoubleIterator
    /\ IteratorItems = <<Num(1), Num(2), Num(3)>>
    /\ Len(LoopEntries) = 3
    /\ result.exitReason = "end"
    /\ result.state.inputs = Arr(<<Num(2), Num(4), Num(6)>>)

\* C21: an Iterator invoked at START on an empty array takes the START -> END
\* branch: no node runs, no error is raised and invoke returns exitReason
\* "end" with the array still empty.
C21_EmptyArrayEnds ==
    (/\ root.kind = "Iterator"
     /\ FreshRun
     /\ "inputs" \in DOMAIN inv.state
     /\ inv.state.inputs = Arr(<<>>))
        => /\ ~Threw
           /\ executed = <<>>
           /\ Returned => /\ result.exitReason = "end"
                          /\ result.state.inputs = Arr(<<>>)

\* the cursor of an interrupt at inner node `name` while element i is processed
IteratorCursor(i, name) == <<ToString(i), ".">> \o ITERATOR_LOOP_NODE \o <<".">> \o name

\* the node.run calls of the inner graph's loop, in order
InnerEntries == SelectSeq(executed, LAMBDA e : e.depth = 3)

\* the positions in `executed` of the loop body's runs
LoopPositions == {j \in DOMAIN executed : executed[j].node = ITERATOR_LOOP_NODE /\ executed[j].depth = 2}

\* the inner nodes run for the k-th loop body run of this call
InnerOf(j) ==
    LET later == {l \in LoopPositions : l > j}
        stop == IF later = {} THEN Len(executed) + 1
                ELSE CHOOSE l \in later : \A m \in later : l <= m
    IN SelectSeq(SubSeq(executed, j + 1, stop - 1), LAMBDA e : e.depth = 3)

ResumedIterator(i) ==
    /\ root = LoopIterator
    /\ phase # "idle"
    /\ inv.variant = "graph"
    /\ inv.resumeFrom.has
    /\ inv.resumeFrom.cursor = IteratorCursor(i, NodeName(1))

\* C22: an Iterator whose loop body is a graph that interrupts at inner node n
\* while processing element i returns the cursor "i.iterator-loop.n"; resumed
\* from that cursor the first loop body run is for element i and starts at n,
\* which passes through, no loop body run is for an element below i, no inner
\* node before n runs for element i, and every later loop body run is for the
\* next element and starts at the inner graph's START.
C22_IteratorResume ==
    /\ (root = LoopIterator /\ inv.variant = "graph" /\ Returned
          /\ result.exitReason = "interrupt") =>
          /\ LoopEntries # <<>>
          /\ InnerEntries # <<>>
          /\ result.cursor =
                IteratorCursor(LoopEntries[Len(LoopEntries)].input.loopIndex.v,
                               InnerEntries[Len(InnerEntries)].node)
          /\ InnerEntries[Len(InnerEntries)].node = NodeName(1)
    /\ \A i \in 0..MaxItems :
          ResumedIterator(i) =>
             /\ \A k \in DOMAIN LoopEntries :
                   /\ LoopEntries[k].input.loopIndex = Num(i + k - 1)
                   /\ LoopEntries[k].startAt = IF k = 1 THEN NodeName(1) ELSE START
             /\ \A j \in LoopPositions :
                   \A l \in DOMAIN InnerOf(j) :
                      InnerOf(j)[l].node =
                            NodeName(IF executed[j].startAt = START THEN l - 1 ELSE l)
             /\ InnerEntries # <<>> =>
                   /\ InnerEntries[1].type = "interrupt"
                   /\ InnerEntries[1].resumingBefore
                   /\ ~InnerEntries[1].interruptedAfter

\* resumed at "0.iterator-loop.node-1" on [2, 2], the run finished element 0
\* and interrupted in element 1
C22_Witness ==
    /\ ResumedIterator(0)
    /\ Returned
    /\ inv.state.inputs = Arr(<<Num(2), Num(2)>>)
    /\ Len(LoopEntries) = 2
    /\ result.exitReason = "interrupt"
    /\ result.cursor = IteratorCursor(1, NodeName(1))
    /\ result.state.inputs = Arr(<<Num(3), Num(4)>>)

SyntheticKeys(g) == {g.prefix \o "Index", g.prefix \o "Item"}

\* C23: whatever partial update the looped node returns, the state an
\* Iterator builds from the updates nodeStateToState emits, and the state it
\* returns, contain neither the {prefix}Index nor the {prefix}Item field.
C23_NoSyntheticFields ==
    root.kind = "Iterator" =>
        /\ \A d \in DOMAIN stack :
              stack[d].graph.kind = "Iterator" =>
                 DOMAIN stack[d].state \cap SyntheticKeys(root) = {}
        /\ Returned => DOMAIN result.state \cap SyntheticKeys(root) = {}

\* ------------------------------------------------------ calls of mergeState
\* A fourth specification: mergeState(base, changes, schema) is called once
\* on a base, a partial update and a schema over the fields count, items, a
\* and msg.  `inv` holds the arguments, `result` the outcome: what the call
\* returned or threw, the value of base after the call and whether the
\* returned object is the object passed as base.
Absent == [t |-> "absent"]

\* an object with the fields that are not Absent
ObjectOf(count, items, a, msg) ==
    LET all == [count |-> count, items |-> items, a |-> a, msg |-> msg]
    IN [k \in {f \in DOMAIN all : all[f] # Absent} |-> all[k]]

MergeBases ==
    {ObjectOf(count, items, a, msg) :
        count \in {Absent, Null, Num(5)},
        items \in {Absent, Arr(<<Num(1), Num(2), Num(3)>>), Obj([k |-> Num(1)]), Num(5)},
        a \in {Absent, Obj([x |-> Num(1), y |-> Num(2)]), Arr(<<Num(1)>>)},
        msg \in {Absent, Cls("UserMessage", [text |-> Num(1)]), Cls("Date", [time |-> Num(0)])}}

MergeChanges ==
    {ObjectOf(count, items, a, msg) :
        count \in {Absent, Num(3)},
        items \in {Absent, Arr(<<Num(4)>>)},
        a \in {Absent, Obj([x |-> Num(9)])},
        msg \in {Absent, Cls("UserMessage", [text |-> Num(2)])}}

\* z.object({x: z.number(), y: z.number()}), z.record(z.string(), z.number())
\* and an object field with the strategy (old, change) => old
NestedFields ==
    {Field("object", "none", ObjectSchema([x |-> Field("number", m, NoShape),
                                           y |-> Field("number", "none", NoShape)])) :
        m \in {"none", "add"}}
    \cup {Field("record", "none", NoShape),
          Field("object", "keep", ObjectSchema([x |-> Field("number", "none", NoShape),
                                                y |-> Field("number", "none", NoShape)]))}

MergeSchemas ==
    {ObjectSchema([count |-> Field("number", c, NoShape),
                   items |-> Field("array", i, NoShape),
                   a |-> nested,
                   msg |-> Field("class", "none", NoShape)]) :
        c \in {"none", "add"}, i \in {"none", "concat"}, nested \in NestedFields}

HasStrategy(schema, key) ==
    schema.hasShape /\ key \in DOMAIN schema.shape /\ schema.shape[key].merge # "none"

\* the values a strategy is called with have the type of its field
Typed(state, schema) ==
    \A key \in DOMAIN state :
        HasStrategy(schema, key) =>
            state[key].t \in {"null", schema.shape[key].type}

NoMerge == [call |-> "none"]

MergeInit ==
    /\ \E schema \in MergeSchemas, base \in MergeBases, changes \in MergeChanges :
          /\ Typed(base, schema)
          /\ Typed(changes, schema)
          /\ inv = [base |-> base, changes |-> changes, schema |-> schema]
          /\ root = StateMachine(schema)
    /\ store = [id \in RunIds |-> NoEntry]
    /\ phase = "merging"
    /\ runtime = NewRuntimeContext
    /\ stack = <<>>
    /\ result = NoMerge
    /\ invokes = 0
    /\ executed = <<>>
    /\ history = [calls |-> 0]

\* const merged = mergeState(base, changes, schema)
MergeCall ==
    /\ phase = "merging"
    /\ result = NoMerge
    /\ \E merged \in {mergeState(inv.base, inv.changes, inv.schema)} :
          result' = [call |-> "mergeState",
                     threw |-> ~merged.ok,
                     v |-> merged.v,
                     base |-> IF accumulator(Obj(inv.base)).shared /\ merged.ok
                              THEN merged.v ELSE inv.base,
                     same |-> accumulator(Obj(inv.base)).shared]
    /\ history' = [calls |-> 1]
    /\ UNCHANGED <<root, store, phase, inv, runtime, stack, invokes, executed>>

MergeNext == MergeCall

MergeSpec == MergeInit /\ [][MergeNext]_vars

Merged == phase = "merging" /\ result # NoMerge

\* C24: mergeState never mutates base, and mergeState(base, {}, schema)
\* returns a value equal to base that is a distinct object.
C24_BaseUnchanged ==
    Merged =>
        /\ result.base = inv.base
        /\ inv.changes = EmptyObject =>
              /\ ~result.threw
              /\ result.v = inv.base
              /\ ~result.same

\* the key is in both objects and the base value is neither undefined nor null
Present(key) ==
    /\ key \in DOMAIN inv.changes
    /\ key \in DOMAIN inv.base
    /\ inv.base[key] # Null

\* C25: for a key present in changes whose base value is present and whose
\* schema field registers a merge strategy, the merged value is exactly
\* strategy(base[key], changes[key]) whatever the type of the value, without
\* recursion into it; with (old, new) => old + new, 3 merged into 5 gives 8.
C25_StrategyDecides ==
    Merged /\ ~result.threw =>
        /\ \A key \in DOMAIN inv.changes :
              Present(key) /\ HasStrategy(inv.schema, key) =>
                 result.v[key] =
                    ApplyMerge(inv.schema.shape[key].merge, inv.base[key], inv.changes[key])
        /\ (/\ Present("count")
            /\ inv.schema.shape.count.merge = "add"
            /\ inv.base.count = Num(5)
            /\ inv.changes.count = Num(3)) => result.v.count = Num(8)
        /\ (Present("a") /\ inv.schema.shape.a.merge = "keep") => result.v.a = inv.base.a

\* strategies for a number, an array and an object were applied in one call
C25_Witness ==
    /\ Merged
    /\ ~result.threw
    /\ Present("count") /\ inv.schema.shape.count.merge = "add"
    /\ Present("items") /\ inv.schema.shape.items.merge = "concat"
    /\ Present("a") /\ inv.schema.shape.a.merge = "keep"
    /\ result.v.count = Num(8)
    /\ result.v.items = Arr(<<Num(1), Num(2), Num(3), Num(4)>>)
    /\ result.v.a = Obj([x |-> Num(1), y |-> Num(2)])

\* C26: for a key present in changes whose base value is absent or null the
\* merged value is exactly changes[key], also when the schema registers a
\* merge strategy for the field.
C26_AbsentBaseSetsDirectly ==
    Merged /\ ~result.threw =>
        \A key \in DOMAIN inv.changes :
            (key \notin DOMAIN inv.base \/ inv.base[key] = Null) =>
                /\ key \in DOMAIN result.v
                /\ result.v[key] = inv.changes[key]

\* a null count and an absent array were set although both fields register a
\* strategy
C26_Witness ==
    /\ Merged
    /\ ~result.threw
    /\ inv.schema.shape.count.merge = "add"
    /\ inv.schema.shape.items.merge = "concat"
    /\ "count" \in DOMAIN inv.base /\ inv.base.count = Null
    /\ "items" \notin DOMAIN inv.base
    /\ "count" \in DOMAIN inv.changes /\ result.v.count = inv.changes.count
    /\ "items" \in DOMAIN inv.changes /\ result.v.items = inv.changes.items

\* the key-wise merge of two plain objects whose fields are primitives: a key
\* of the change takes the strategy's value where one is registered and the
\* new value otherwise, every other key keeps its value
KeyWise(old, change, schema) ==
    Obj([k \in DOMAIN old.v \cup DOMAIN change.v |->
            IF k \notin DOMAIN change.v THEN old.v[k]
            ELSE IF k \notin DOMAIN old.v THEN change.v[k]
            ELSE IF HasStrategy(schema, k)
                 THEN ApplyMerge(schema.shape[k].merge, old.v[k], change.v[k])
                 ELSE change.v[k]])

\* C27: in a call whose changes hold one key, for a field without strategy
\* whose base and new values are both plain objects the merge is key-wise and recursive (merging {a: {x: 9}} into
\* {a: {x: 1, y: 2}} gives {a: {x: 9, y: 2}}), and a primitive new value
\* replaces the old one.
C27_PlainObjectsMergeKeyWise ==
    Merged /\ ~cloneThrows(Obj(inv.base)) =>
        \A key \in DOMAIN inv.changes :
            (/\ DOMAIN inv.changes = {key}
             /\ Present(key)
             /\ ~HasStrategy(inv.schema, key)) =>
                /\ (inv.base[key].t = "object" /\ inv.changes[key].t = "object") =>
                      /\ ~result.threw
                      /\ result.v[key] =
                            KeyWise(inv.base[key], inv.changes[key], inv.schema.shape[key].schema)
                /\ inv.changes[key].t = "number" =>
                      /\ ~result.threw
                      /\ result.v[key] = inv.changes[key]

\* C28: in a call whose changes hold one key, for a field without strategy
\* whose base value is present, a new value that is an array becomes the merged value as it is, whatever the kind of
\* the base value.
C28_ArrayReplaces ==
    Merged /\ ~cloneThrows(Obj(inv.base)) =>
        \A key \in DOMAIN inv.changes :
            (/\ DOMAIN inv.changes = {key}
             /\ Present(key)
             /\ ~HasStrategy(inv.schema, key)
             /\ inv.changes[key].t = "array") =>
                /\ ~result.threw
                /\ result.v[key] = inv.changes[key]

\* ------------------------------------ graphs holding a StateTransformNode
\* A sixth specification: invocations of graphs whose state is {count} and
\* that hold a StateTransformNode over the child state {id, value}.
ValueSchema ==
    ObjectSchema([id |-> Field("number", "none", NoShape),
                  value |-> Field("number", "none", NoShape)])

\* state-transform.spec "interrupts": value + 1, InterruptNode, value * 2
ChildSequence ==
    next(next(next(NodeSequence(ValueSchema), FunctionNode("valuePlusOne")),
              InterruptNode(<<>>)),
         FunctionNode("valueTimesTwo"))

\* state-transform.spec "multiple interrupts": two InterruptNodes in the child
TwoInterruptSequence ==
    next(next(next(next(NodeSequence(ValueSchema), FunctionNode("valuePlusOne")),
                   InterruptNode(<<>>)),
              InterruptNode(<<"again">>)),
         FunctionNode("valueTimesTwo"))

Wrapped ==
    {GraphNode(ChildSequence), GraphNode(TwoInterruptSequence),
     InterruptNode(<<"wait">>), FunctionNode("valuePlusOne")}

\* START -> transform -> END
TransformMachine(schema, wrapped) ==
    LET n1 == addNode(StateMachine(schema), <<"transform">>,
                      StateTransformNode(ValueSchema, "countToValue", wrapped, "valueToCount"))
        e1 == addEdge(n1, START, <<"transform">>)
    IN addEdge(e1, <<"transform">>, END)

\* addOne, the StateTransformNode, addOne
TransformSequence(wrapped) ==
    next(next(next(NodeSequence(CountSchema("none")), FunctionNode("addOne")),
              StateTransformNode(ValueSchema, "countToValue", wrapped, "valueToCount")),
         FunctionNode("addOne"))

\* a sequence whose only node is a graph holding the StateTransformNode
NestedTransform ==
    next(NodeSequence(CountSchema("none")),
         GraphNode(TransformMachine(CountSchema("none"), GraphNode(ChildSequence))))

TransformGraphs ==
    {TransformMachine(CountSchema(m), wrapped) : m \in Merges, wrapped \in Wrapped}
    \cup {TransformSequence(wrapped) : wrapped \in Wrapped}
    \cup {NestedTransform}

TransformInit ==
    /\ root \in TransformGraphs
    /\ store = [id \in RunIds |-> NoEntry]
    /\ phase = "idle"
    /\ inv = NoInvoke
    /\ runtime = NewRuntimeContext
    /\ stack = <<>>
    /\ result = NoResult
    /\ invokes = 0
    /\ executed = <<>>
    /\ history = [ref |-> [set |-> FALSE], chain |-> [ok |-> FALSE], before |-> {}]

\* invoke(input) and invoke(result.state, {resumeFrom: result.cursor})
InvokeTransform ==
    \/ \E input \in FreshInputs(root) : InvokeEphemeral(input, NoCursor, "graph")
    \/ /\ result.exitReason = "interrupt"
       /\ InvokeEphemeral(result.state, [has |-> TRUE, cursor |-> result.cursor], "graph")

TransformNext ==
    \/ InvokeTransform
    \/ InvokeWithStore
    \/ TransitionStart
    \/ StepNode
    \/ StepTransform
    \/ EnterTransform
    \/ ReturnTransform
    \/ EnterGraph
    \/ ReturnGraph
    \/ ReturnInvoke

TransformSpec == TransformInit /\ [][TransformNext]_vars

\* the last run of a StateTransformNode started by the running invoke
LastTransform ==
    CHOOSE i \in DOMAIN executed :
        /\ executed[i].type = "transform"
        /\ \A j \in DOMAIN executed : executed[j].type = "transform" => j <= i

\* an invoke returned after the node wrapped by a StateTransformNode interrupted
TransformInterrupted ==
    /\ phase = "returned"
    /\ result.exitReason = "interrupt"
    /\ \E i \in DOMAIN executed : executed[i].type = "transform"

\* the child state when the wrapped node interrupted: the state the wrapped
\* graph's InterruptNode was given or, for a wrapped InterruptNode, the result
\* of the input transform
ChildState ==
    IF LastTransform < Len(executed) THEN executed[Len(executed)].input
    ELSE inputTransform("countToValue", executed[LastTransform].input)

\* C30: when the node wrapped by a StateTransformNode interrupts, the state
\* returned by invoke has every parent field as it was when the
\* StateTransformNode ran (the output function is not applied) and holds the
\* full child state, without __parentState, under
\* "__wrappedState_{layerId}.{nodeName}".
C30_InterruptStashesChildState ==
    TransformInterrupted =>
        LET t == executed[LastTransform]
            key == "__wrappedState_" \o Text(t.path)
        IN /\ \A k \in DOMAIN t.input : k \in DOMAIN result.state /\ result.state[k] = t.input[k]
           /\ key \in DOMAIN result.state
           /\ result.state[key].t = "object"
           /\ PARENT_STATE \notin DOMAIN result.state[key].v
           /\ ~t.resumingBefore =>
                 /\ result.state[key].v = Omit(ChildState, {PARENT_STATE})
                 /\ DOMAIN result.state[key].v = DOMAIN ValueSchema.shape
           /\ (t.resumingBefore /\ LastTransform < Len(executed)) =>
                 result.state[key].v = Omit(ChildState, {PARENT_STATE})

\* invoke({count: 1}) of START -> transform -> END returned interrupted with
\* count 1 and {id: 1, value: 2} under "__wrappedState_ROOT.transform"
C30_Witness ==
    /\ TransformInterrupted
    /\ ~inv.resumeFrom.has
    /\ inv.state = [count |-> Num(1)]
    /\ "__wrappedState_ROOT.transform" \in DOMAIN result.state
    /\ result.state["__wrappedState_ROOT.transform"] = Obj([id |-> Num(1), value |-> Num(2)])
    /\ result.state.count = Num(1)

\* the running invoke resumes the interrupt the previous invoke returned
\* (`result` still holds that result), and the wrapped graph of its
\* StateTransformNode has started a node
ResumedUnderTransform ==
    /\ phase = "running"
    /\ inv.fromInterrupt
    /\ \E i \in DOMAIN executed : executed[i].type = "transform"
    /\ LastTransform < Len(executed)
    /\ executed[LastTransform + 1].depth > executed[LastTransform].depth

\* C31: on each resume (ephemeral with the returned state and cursor, or through
\* the store) the child state is read back from the stash key, so the wrapped
\* graph continues on the child state it had at the interrupt; on normal
\* completion the stash key holds no value.
C31_StashSurvivesResume ==
    /\ ResumedUnderTransform =>
          LET t == executed[LastTransform]
              key == "__wrappedState_" \o Text(t.path)
          IN /\ key \in DOMAIN result.state
             /\ Omit(executed[LastTransform + 1].input, {PARENT_STATE}) = result.state[key].v
    /\ (phase = "returned" /\ result.exitReason = "end") =>
          \A k \in DOMAIN result.state :
              k \notin DOMAIN root.schema.shape => result.state[k] = Undefined

\* ------------------------------------------- functions that write their input
\* A ninth specification: invocations of graphs whose node functions and
\* decision functions assign to the state object they are given.

\* addOne, then (state) => { state.count = 0; return {}; }, then addOne
OverwritingSequence(schema) ==
    next(next(next(NodeSequence(schema), FunctionNode("addOne")),
              FunctionNode("overwrite")),
         FunctionNode("addOne"))

\* START -> first, a conditional edge from first to nodeB, nodeB -> END
OverwritingMachine(schema, func) ==
    LET n1 == addNode(StateMachine(schema), <<"first">>, FunctionNode("addOne"))
        n2 == addNode(n1, <<"nodeB">>, FunctionNode("addOne"))
        e1 == addEdge(n2, START, <<"first">>)
        e2 == addConditionalEdge(e1, <<"first">>, <<<<"nodeB">>>>, func)
    IN addEdge(e2, <<"nodeB">>, END)

OverwritingGraphs ==
    {OverwritingSequence(CountSchema(m)) : m \in Merges}
    \cup {OverwritingMachine(CountSchema(m), func) :
             m \in Merges, func \in {"nodeB", "overwriteThenB"}}

OverwritingInit ==
    /\ root \in OverwritingGraphs
    /\ store = [id \in RunIds |-> NoEntry]
    /\ phase = "idle"
    /\ inv = NoInvoke
    /\ runtime = NewRuntimeContext
    /\ stack = <<>>
    /\ result = NoResult
    /\ invokes = 0
    /\ executed = <<>>
    /\ history = [ref |-> [set |-> FALSE], chain |-> [ok |-> FALSE], before |-> {}]

InvokeOverwriting ==
    \E input \in FreshInputs(root) : InvokeEphemeral(input, NoCursor, "graph")

OverwritingNext ==
    \/ InvokeOverwriting
    \/ InvokeWithStore
    \/ TransitionStart
    \/ StepNode
    \/ ReturnInvoke

OverwritingSpec == OverwritingInit /\ [][OverwritingNext]_vars

\* the state of the graph call `frame` after one loop iteration in which the
\* state changes only by merging what the node returns
MergedState(frame) ==
    LET g == frame.graph
        node == nodeAt(g, currentNodeOf(frame))
        ran == runNode(node, frame.state, runtime, frame.context)
    IN IF DOMAIN ran.result = {} THEN frame.state
       ELSE Spread(frame.state, mergeState(frame.state, ran.result, g.schema).v)

\* a loop iteration of the running graph call that does not end the invoke
\* with an error
Iteration == AtLoop /\ currentNodeOf(top) \in DOMAIN top.graph.nodes /\ stack' # <<>>

\* no decision function of the graph assigns to its argument
PureDecisions(g) ==
    \A from \in DOMAIN g.conditionalFuncs : writes(g.conditionalFuncs[from]) = EmptyObject

\* the nodes' part of C37: a node that assigns to the state object it is
\* given and returns {} leaves the state of the graph call as it was
NodeWritesAreLost ==
    [][Iteration /\ PureDecisions(root) => top'.state = MergedState(top)]_vars

\* C37: a node that assigns to the state object it receives and returns {}
\* changes nothing for the nodes after it, and more generally the live state
\* of a graph call changes only by merging the partial update a node returns.
C37_StateChangesOnlyByMerge ==
    [][/\ Iteration => top'.state = MergedState(top)
       /\ Running /\ ~Iteration /\ stack' # <<>> => top'.state = top.state]_vars

\* ------------------------------------------------ concurrent invocations
\* A seventh specification: invoke calls on one Graph instance that overlap in
\* time.  The variables phase, inv, runtime, stack, result and executed are
\* the locals of the invoke call the event loop is running; history.parked
\* holds the locals of the call that waits at an await (a node boundary, or
\* before or after a whole call), and Switch hands the thread over.  Before
\* the two overlapping callers start, caller "solo" makes its calls alone, and
\* history.alone keeps, for each sequence of calls made alone, the outcome
\* of the last one.  Caller "a" then makes the calls that were made alone,
\* caller "b" any calls.  A caller's first call starts a run, its later calls
\* resume the interrupt its previous call returned.
MaxOwnCalls == 2

ConcurrentRunIds == [solo |-> "run-0", a |-> "run-a", b |-> "run-b"]

ConcurrentGraphs ==
    {FlatSequence(CountSchema(m)) : m \in Merges}
    \cup {FlatMachine(CountSchema("none")), LoopIterator}

\* the locals of an invoke call not yet made
IdleCall ==
    [phase |-> "idle", inv |-> NoInvoke, runtime |-> NewRuntimeContext, stack |-> <<>>,
     result |-> NoResult, executed |-> <<>>]

\* the calls the current caller has made so far, the running one included
CallsOf(config) == IF "calls" \in DOMAIN config THEN config.calls ELSE <<>>

\* what a caller sees of a finished call, the run id left out
Outcome(res) == [k \in (DOMAIN res) \ {"runId"} |-> res[k]]

\* the calls a caller may make next: "a" repeats the calls made alone
MayCall(call) ==
    IF history.active = "a"
    THEN \E made \in history.alone : made.calls = Append(CallsOf(inv), call)
    ELSE Len(CallsOf(inv)) < MaxOwnCalls

\* history.alone once the caller's last call is noted
Noted ==
    IF phase \in {"returned", "threw"} /\ inv.mode # "none"
    THEN history.alone \cup {[calls |-> inv.calls, outcome |-> Outcome(result)]}
    ELSE history.alone

ConcurrentInit ==
    /\ root \in ConcurrentGraphs
    /\ store = [id \in {"run-0", "run-a", "run-b"} |-> NoEntry]
    /\ phase = "idle"
    /\ inv = NoInvoke
    /\ runtime = NewRuntimeContext
    /\ stack = <<>>
    /\ result = NoResult
    /\ invokes = 0
    /\ executed = <<>>
    /\ history = [ref |-> [set |-> FALSE], chain |-> [ok |-> FALSE], before |-> {},
                  graph |-> root, active |-> "solo", runIds |-> ConcurrentRunIds,
                  parked |-> IdleCall, alone |-> {}, overlapped |-> FALSE]

\* the current caller calls invoke(input, {runId}) or, after an interrupt,
\* invoke(result.state, {runId, resumeFrom: result.cursor})
InvokeOwnEphemeral ==
    /\ phase \in {"idle", "returned", "threw"}
    /\ \E resume \in {r \in BOOLEAN :
                         /\ r => inv.mode = "ephemeral" /\ result.exitReason = "interrupt"
                         /\ ~r => CallsOf(inv) = <<>>} :
       \E input \in IF resume THEN {result.state} ELSE FreshInputs(root) :
          LET resumeFrom == IF resume THEN [has |-> TRUE, cursor |-> result.cursor]
                            ELSE NoCursor
              call == [mode |-> "ephemeral", input |-> input, resumeFrom |-> resumeFrom]
              config == [mode |-> "ephemeral", runId |-> history.runIds[history.active],
                         input |-> input, state |-> input, deleteAfterEnd |-> FALSE,
                         variant |-> "graph", resumeFrom |-> resumeFrom, loaded |-> NoEntry,
                         fromInterrupt |-> resume, calls |-> Append(CallsOf(inv), call)]
              rt == IF resume /\ resumeFrom.cursor # <<>>
                    THEN unwrapCursor(NewRuntimeContext, resumeFrom.cursor)
                    ELSE NewRuntimeContext
          IN MayCall(call) /\ Begin(config, input, rt)
    /\ history' = [history EXCEPT !.alone = IF history.active = "solo" THEN Noted ELSE @]
    /\ UNCHANGED <<root, store>>

\* the current caller calls invoke(partialInput, {store, runId})
InvokeOwnStored ==
    /\ phase \in {"idle", "returned", "threw"}
    /\ \E partialInput \in IF CallsOf(inv) = <<>> THEN FreshInputs(root) \cup {EmptyObject}
                           ELSE {p \in {EmptyObject} :
                                    inv.mode = "stored" /\ result.exitReason = "interrupt"} :
          LET runId == history.runIds[history.active]
              load == store[getStoredRun(runId)]
              mergedState == IF load.exists
                             THEN mergeState(partialInput, load.state, root.schema)
                             ELSE Ok(partialInput)
              call == [mode |-> "stored", input |-> partialInput, resumeFrom |-> NoCursor]
              config == [mode |-> "stored", runId |-> runId, input |-> partialInput,
                         state |-> partialInput, loaded |-> load, deleteAfterEnd |-> FALSE,
                         variant |-> "graph",
                         resumeFrom |-> IF load.exists
                                        THEN [has |-> TRUE, cursor |-> load.cursor]
                                        ELSE NoCursor,
                         fromInterrupt |-> load.exists /\ load.cursor # END,
                         calls |-> Append(CallsOf(inv), call)]
              rt == IF load.exists THEN unwrapCursor(NewRuntimeContext, load.cursor)
                    ELSE NewRuntimeContext
          IN /\ MayCall(call)
             /\ IF mergedState.ok
                THEN Begin(config, mergedState.v, rt)
                ELSE /\ Raise(mergedState.v)
                     /\ invokes' = invokes + 1
                     /\ executed' = <<>>
                     /\ runtime' = rt
                     /\ inv' = config
    /\ history' = [history EXCEPT !.alone = IF history.active = "solo" THEN Noted ELSE @]
    /\ UNCHANGED <<root, store>>

\* caller "solo" is done: callers "a" and "b" start, "b" with its own run id or
\* with the run id of "a"
StartOverlap ==
    /\ history.active = "solo"
    /\ phase \in {"returned", "threw"}
    /\ \E runIdB \in {"run-a", "run-b"} :
          history' = [history EXCEPT !.active = "a", !.parked = IdleCall, !.alone = Noted,
                                     !.runIds = [@ EXCEPT !.b = runIdB]]
    /\ phase' = "idle"
    /\ inv' = NoInvoke
    /\ runtime' = NewRuntimeContext
    /\ stack' = <<>>
    /\ result' = NoResult
    /\ executed' = <<>>
    /\ UNCHANGED <<root, store, invokes>>

\* the running call awaits and the call of the other caller goes on
Switch ==
    /\ history.active \in {"a", "b"}
    /\ phase' = history.parked.phase
    /\ inv' = history.parked.inv
    /\ runtime' = history.parked.runtime
    /\ stack' = history.parked.stack
    /\ result' = history.parked.result
    /\ executed' = history.parked.executed
    /\ history' = [history EXCEPT
          !.active = IF @ = "a" THEN "b" ELSE "a",
          !.parked = [phase |-> phase, inv |-> inv, runtime |-> runtime, stack |-> stack,
                      result |-> result, executed |-> executed],
          !.overlapped = @ \/ (phase = "running" /\ history.parked.phase = "running")]
    /\ UNCHANGED <<root, store, invokes>>

ConcurrentNext ==
    \/ InvokeOwnEphemeral
    \/ InvokeOwnStored
    \/ StartOverlap
    \/ Switch
    \/ TransitionStart
    \/ StepNode
    \/ EnterGraph
    \/ ReturnGraph
    \/ ReturnInvoke

ConcurrentSpec == ConcurrentInit /\ [][ConcurrentNext]_vars

\* the two overlapping callers use different run ids
OwnRunIds == history.runIds.a # history.runIds.b

\* the current caller is one of two overlapping callers and its last call is over
OverlappedCallOver ==
    /\ history.active \in {"a", "b"}
    /\ phase \in {"returned", "threw"}

\* C32: of two callers with different run ids whose invoke calls on one Graph
\* instance interleave at node boundaries, each gets from every call the
\* outcome the same calls give when made alone; the graph's nodes, edges and
\* conditional-edge maps stay as they were built.
C32_IndependentInvocations ==
    /\ root = history.graph
    /\ (OwnRunIds /\ OverlappedCallOver) =>
          \A made \in history.alone :
              made.calls = inv.calls => made.outcome = Outcome(result)

\* after both callers had a call running at the same time, a caller's call
\* that interrupted has returned the outcome recorded for the same call alone
C32_Witness ==
    /\ OwnRunIds
    /\ OverlappedCallOver
    /\ history.overlapped
    /\ history.parked.phase = "returned"
    /\ result.exitReason = "interrupt"
    /\ \E made \in history.alone : made.calls = inv.calls /\ made.outcome = Outcome(result)

\* a persisted invoke returns in this step
StoredReturn ==
    /\ phase = "running"
    /\ phase' = "returned"
    /\ inv.mode = "stored"
    /\ history'.active = history.active

\* C33: the core enforces no at-most-one-writer rule per run id: whenever a
\* persisted invoke returns, the row of its run id becomes the (cursor, state)
\* it returned, whatever another invocation saved there since this one loaded;
\* so of two persisted invokes on one run id that loaded the same checkpoint
\* and both ran the nodes after it, the one that saved last is in the store.
C33_LastSaverWins ==
    [][StoredReturn =>
          store'[inv.runId] = saved(IF result'.exitReason = "interrupt" THEN result'.cursor
                                    ELSE END,
                                    result'.state)]_vars

\* two persisted invokes on run id "run-a" loaded the same checkpoint, both
\* ran nodes while the other was running, both returned, with different
\* states; the store holds the state of the one that returned last
C33_Witness ==
    /\ ~OwnRunIds
    /\ OverlappedCallOver
    /\ history.overlapped
    /\ history.parked.phase = "returned"
    /\ inv.mode = "stored"
    /\ history.parked.inv.mode = "stored"
    /\ inv.loaded.exists
    /\ inv.loaded = history.parked.inv.loaded
    /\ executed # <<>>
    /\ history.parked.executed # <<>>
    /\ result.state # history.parked.result.state
    /\ store["run-a"] = saved(END, result.state)
    /\ store["run-a"] # saved(END, history.parked.result.state)

\* ------------------------------------------------------------- ReActAgent
\* A tenth specification: ReActAgent.invoke against a model whose responses
\* are chosen freely.  `root` is the agent, `inv` the call's arguments,
\* `runtime` the locals allMessage and loopCount, `executed` the model
\* invocations made by the running call (the messages sent, the response),
\* `result` the response returned or the error thrown.

\* invokeLoopLimit = 10
invokeLoopLimit == 10

\* the largest number of ReActAgent.invoke calls in one behaviour
MaxAgentCalls == 2

\* messages are instances of registered classes; a message without a tool
\* holds "" as toolUseId and toolName
Message(cls, text, toolUseId, toolName) ==
    Cls(cls, [text |-> text, toolUseId |-> toolUseId, toolName |-> toolName])

UserMessage(text) == Message("UserMessage", text, "", "")
AgentMessage(text) == Message("AgentMessage", text, "", "")
ToolRequest(toolUseId, toolName) == Message("ToolRequest", "", toolUseId, toolName)
ToolResponse(toolUseId, toolName, output) ==
    Message("ToolResponse", output, toolUseId, toolName)

\* message instanceof ToolRequest
IsToolRequest(message) == message.cls = "ToolRequest"

\* new ReActAgent(model, tools): the tool map holds the tools by name
ReActAgent(tools) == [toolMap |-> tools, invokeLoopLimit |-> invokeLoopLimit]

\* tool.func(toolRequest.input, additionalArgs) of the tools of
\* react-agent.spec "should handle multiple parallel tool requests"
toolFunc(toolName) ==
    IF toolName = "get_weather" THEN "72 Sunny" ELSE "10:30 AM"

AgentTools == {"get_weather", "get_time"}

\* what the model may answer: a final message, one or two tool requests, a
\* message together with a request, a request for a tool the agent lacks
Responses ==
    {<<AgentMessage("done")>>,
     <<ToolRequest("call_1", "get_weather"), ToolRequest("call_2", "get_time")>>,
     <<AgentMessage("wait"), ToolRequest("call_1", "get_time")>>,
     <<ToolRequest("call_1", "get_weather"), ToolRequest("call_2", "get_stock")>>}

\* the ToolResponse pushed for a request
respond(toolRequest) ==
    ToolResponse(toolRequest.v.toolUseId, toolRequest.v.toolName,
                 toolFunc(toolRequest.v.toolName))

\* the for loop over toolRequests with the responses pushed in reverse order
runToolsReversed(agent, allMessage, toolRequests) ==
    IF \E i \in DOMAIN toolRequests : toolRequests[i].v.toolName \notin agent.toolMap
    THEN Throw("Tool not found")
    ELSE Ok(allMessage \o [i \in DOMAIN toolRequests |->
                              respond(toolRequests[Len(toolRequests) + 1 - i])])

\* the for loop over toolRequests: Ok(allMessage with one ToolResponse pushed
\* per request, in the order of the requests) or Throw when a requested tool
\* is not in the tool map (what was pushed before is lost with allMessage)
runTools(agent, allMessage, toolRequests) ==
    IF \E i \in DOMAIN toolRequests : toolRequests[i].v.toolName \notin agent.toolMap
    THEN Throw("Tool not found")
    ELSE Ok(allMessage \o [i \in DOMAIN toolRequests |-> respond(toolRequests[i])])

ReActInit ==
    /\ root = ReActAgent(AgentTools)
    /\ store = AgentTools
    /\ phase = "idle"
    /\ inv = [messages |-> <<>>]
    /\ runtime = [allMessage |-> <<>>, loopCount |-> 0]
    /\ stack = <<>>
    /\ result = NoResult
    /\ invokes = 0
    /\ executed = <<>>
    /\ history = {}

\* invoke up to the while loop: allMessage = cloneAware(messages),
\* model.withTools(...), loopCount = 0
InvokeAgent ==
    /\ phase \in {"idle", "returned", "threw"}
    /\ invokes < MaxAgentCalls
    /\ \E messages \in {<<UserMessage("hello")>>,
                        <<UserMessage("hello"), AgentMessage("hi"), UserMessage("and")>>} :
          /\ inv' = [messages |-> messages]
          /\ runtime' = [allMessage |-> cloneAware(Arr(messages)).v, loopCount |-> 0]
    /\ store' = root.toolMap
    /\ phase' = "running"
    /\ result' = NoResult
    /\ invokes' = invokes + 1
    /\ executed' = <<>>
    /\ UNCHANGED <<root, stack, history>>

\* one iteration of the while loop: the model is invoked; a response without
\* tool requests is returned; else the response messages are added to
\* allMessage and the requested tools are run in turn
ModelCall ==
    /\ phase = "running"
    /\ runtime.loopCount < root.invokeLoopLimit
    /\ \E response \in Responses :
          LET toolRequests == SelectSeq(response, IsToolRequest)
              ran == runTools(root, runtime.allMessage \o response, toolRequests)
          IN /\ executed' = Append(executed,
                                   [messages |-> runtime.allMessage, response |-> response])
             /\ IF toolRequests = <<>>
                THEN /\ phase' = "returned"
                     /\ result' = [exitReason |-> "response", messages |-> response]
                     /\ runtime' = [runtime EXCEPT !.loopCount = @ + 1]
                ELSE IF ran.ok
                THEN /\ runtime' = [allMessage |-> ran.v, loopCount |-> runtime.loopCount + 1]
                     /\ UNCHANGED <<phase, result>>
                ELSE /\ phase' = "threw"
                     /\ result' = [exitReason |-> "throw", error |-> ran.v]
                     /\ runtime' = [runtime EXCEPT !.loopCount = @ + 1]
    /\ UNCHANGED <<root, store, inv, stack, invokes, history>>

\* the while loop ends at the limit: throw new Error("ReActAgent loop limit
\* reached without agent resolution.")
LoopLimit ==
    /\ phase = "running"
    /\ runtime.loopCount >= root.invokeLoopLimit
    /\ phase' = "threw"
    /\ result' = [exitReason |-> "throw", error |-> "ReActAgent loop limit reached"]
    /\ UNCHANGED <<root, store, inv, runtime, stack, invokes, executed, history>>

ReActNext ==
    \/ InvokeAgent
    \/ ModelCall
    \/ LoopLimit

\* invoke is one async function: once the model or a tool has answered, the
\* loop goes on
ReActSpec ==
    ReActInit /\ [][ReActNext]_vars /\ WF_vars(ModelCall) /\ WF_vars(LoopLimit)

HasToolRequest(response) == \E i \in DOMAIN response : IsToolRequest(response[i])

\* one ToolResponse per request of the response, in request order
ToolResponses(response) ==
    LET toolRequests == SelectSeq(response, IsToolRequest)
    IN [i \in DOMAIN toolRequests |->
           ToolResponse(toolRequests[i].v.toolUseId, toolRequests[i].v.toolName,
                        toolFunc(toolRequests[i].v.toolName))]

\* a response asks for a tool the agent does not have
UnknownTool(response) ==
    \E i \in DOMAIN response :
        IsToolRequest(response[i]) /\ response[i].v.toolName \notin root.toolMap

Over == phase \in {"returned", "threw"}

\* at most 10 model invocations, each sent the messages of the one before,
\* its response and the tool responses; the call ends
BoundedLoop ==
    /\ [](Len(executed) <= 10)
    /\ [](executed # <<>> => executed[1].messages = inv.messages)
    /\ [](\A k \in 1..(Len(executed) - 1) :
             /\ HasToolRequest(executed[k].response)
             /\ executed[k + 1].messages =
                   executed[k].messages \o executed[k].response
                   \o ToolResponses(executed[k].response))
    /\ (phase = "running") ~> Over

LastResponse == executed[Len(executed)].response

MaxLayers == 3

CursorNames == {<<"a">>, <<"b">>, <<"a", ".", "b">>}

NameSequences == UNION {[1..n -> CursorNames] : n \in 1..MaxLayers}

RECURSIVE LayerStack(_, _)
\* the runtime after a Graph.run at each depth took its layer and set its node
LayerStack(rt, names) ==
    IF names = <<>> THEN rt
    ELSE LayerStack(setCurrentNode(nextLayer(rt), nextLayerPos(rt), Head(names)), Tail(names))

CurrentNodes(rt) == [d \in DOMAIN rt.contextLayers |-> rt.contextLayers[d].currentNode]

CursorInit ==
    /\ \E names \in NameSequences :
          /\ inv = [names |-> names]
          /\ runtime = LayerStack(NewRuntimeContext, names)
    /\ root = StateMachine(CountSchema("none"))
    /\ store = [id \in RunIds |-> NoEntry]
    /\ phase = "cursor"
    /\ stack = <<>>
    /\ result = [call |-> "none"]
    /\ invokes = 0
    /\ executed = <<>>
    /\ history = [joined |-> FALSE, descents |-> 0]

\* const cursor = runtime.wrapCursor()
WrapCursor ==
    /\ phase = "cursor"
    /\ result.call \in {"none", "unwrapJoined"}
    /\ result' = [call |-> "wrapCursor", cursor |-> wrapCursor(runtime)]
    /\ UNCHANGED <<root, store, phase, inv, runtime, stack, invokes, executed, history>>

\* new RuntimeContext().unwrapCursor(cursor)
UnwrapCursor ==
    /\ phase = "cursor"
    /\ result.call = "wrapCursor"
    /\ ~history.joined
    /\ runtime' = unwrapCursor(NewRuntimeContext, result.cursor)
    /\ result' = [call |-> "unwrapCursor", cursor |-> result.cursor]
    /\ UNCHANGED <<root, store, phase, inv, stack, invokes, executed, history>>

\* new RuntimeContext().unwrapCursor(N.join("."))
UnwrapJoined ==
    /\ phase = "cursor"
    /\ result.call = "none"
    /\ runtime' = unwrapCursor(NewRuntimeContext, join(inv.names))
    /\ result' = [call |-> "unwrapJoined", cursor |-> join(inv.names)]
    /\ history' = [joined |-> TRUE, descents |-> 0]
    /\ UNCHANGED <<root, store, phase, inv, stack, invokes, executed>>

\* a cursor was unwrapped on the RuntimeContext
Unwrapped == phase = "cursor" /\ result.call \notin {"none", "wrapCursor"}

\* a graph call takes its layer: runtime.nextLayer(); history.descents counts
\* the calls since unwrapCursor while no layer was removed
NextLayer ==
    /\ Unwrapped
    /\ Len(runtime.contextLayers) <= 2 * MaxLayers
    /\ runtime' = nextLayer(runtime)
    /\ result' = [call |-> "nextLayer", cursor |-> result.cursor,
                  layer |-> nextLayerPos(runtime)]
    /\ history' = [history EXCEPT !.descents = IF @ >= 0 THEN @ + 1 ELSE @]
    /\ UNCHANGED <<root, store, phase, inv, stack, invokes, executed>>

\* the graph call that holds the current layer completes: context.done()
Done ==
    /\ Unwrapped
    /\ runtime.currentLayer >= 0
    /\ runtime' = done(runtime)
    /\ result' = [call |-> "done", cursor |-> result.cursor]
    /\ history' = [history EXCEPT !.descents = -1]
    /\ UNCHANGED <<root, store, phase, inv, stack, invokes, executed>>

CursorNext ==
    \/ WrapCursor
    \/ UnwrapCursor
    \/ UnwrapJoined
    \/ NextLayer
    \/ Done

CursorSpec == CursorInit /\ [][CursorNext]_vars

\* C34: after unwrapCursor of a cursor with k segments on a fresh
\* RuntimeContext the resuming flag is true and the pointer is before the first
\* layer; the next k nextLayer() calls return the k rebuilt layers in depth
\* order and allocate nothing; the call after them appends exactly one layer
\* whose currentNode is undefined.
C34_NextLayerReenters ==
    LET segments == split(result.cursor)
        k == Len(segments)
        layers == runtime.contextLayers
    IN /\ (Unwrapped /\ result.call \in {"unwrapCursor", "unwrapJoined"}) =>
             /\ runtime.resuming
             /\ runtime.currentLayer = -1
             /\ Len(layers) = k
       /\ (Unwrapped /\ result.call = "nextLayer" /\ history.descents \in 1..k) =>
             /\ Len(layers) = k
             /\ result.layer = history.descents
             /\ runtime.currentLayer = history.descents - 1
             /\ layers[result.layer].hasNode
             /\ layers[result.layer].currentNode = segments[history.descents]
       /\ (Unwrapped /\ result.call = "nextLayer" /\ history.descents = k + 1) =>
             /\ Len(layers) = k + 1
             /\ result.layer = k + 1
             /\ runtime.currentLayer = k
             /\ ~layers[k + 1].hasNode
             /\ layers[k + 1].index = k

\* a cursor with three segments was unwrapped, three nextLayer calls went
\* down the rebuilt layers and the fourth allocated a layer
C34_Witness ==
    /\ Unwrapped
    /\ result.call = "nextLayer"
    /\ Len(split(result.cursor)) = 3
    /\ history.descents = 4
    /\ Len(runtime.contextLayers) = 4
    /\ ~runtime.contextLayers[4].hasNode

\* C35: in every state reached through unwrapCursor, nextLayer and the
\* removeTopLayer of a completing graph call, each layer's index equals its
\* position in the layer stack and -1 <= currentLayer <= stack length - 1.
C35_LayerStackShape ==
    /\ \A pos \in DOMAIN runtime.contextLayers : runtime.contextLayers[pos].index = pos - 1
    /\ -1 <= runtime.currentLayer
    /\ runtime.currentLayer <= Len(runtime.contextLayers) - 1

\* after a cursor restored layers, graph calls went down and completed: a
\* layer was removed and a deeper one is in use
C35_Witness ==
    /\ Unwrapped
    /\ history.descents = -1
    /\ result.call = "nextLayer"
    /\ runtime.currentLayer >= 1
    /\ Len(runtime.contextLayers) >= 3

\* C29: unwrapCursor(wrapCursor()) on a fresh RuntimeContext rebuilds a stack
\* with the same number of layers and the same currentNode at each depth, and
\* for a sequence N of node names unwrapCursor(N.join(".")) followed by
\* wrapCursor() returns N.join(".").
C29_CursorRoundTrip ==
    /\ (phase = "cursor" /\ result.call = "unwrapCursor") =>
          /\ Len(runtime.contextLayers) = Len(inv.names)
          /\ CurrentNodes(runtime) = inv.names
    /\ (phase = "cursor" /\ result.call = "wrapCursor" /\ history.joined) =>
          result.cursor = join(inv.names)

\* ------------------------------------------- building and wiring a graph
\* A second specification: the builder methods, validate and transition are
\* called on a graph under construction.  `root` is that graph, `result` the
\* outcome of the last call, `runtime` the context transition was called
\* with, `history` the graph before the last call, the number of builder
\* calls and the nodes passed to next.
MaxCalls == 2
MaxNext == 3

BuildNames == {<<"a">>, <<"b">>, <<"s", "end">>}

BuildNodes == {FunctionNode("addOne"), FunctionNode("noop"), InterruptNode(<<>>)}

CandidateLists == {<<>>, <<<<"a">>, END>>, <<<<"a">>, <<"b">>>>, <<<<"b">>, <<"s", "end">>>>}

DecisionFuncs == {"a", "end", "throwing"}

BuildInit ==
    /\ root \in {StateMachine(CountSchema("none")), NodeSequence(CountSchema("none"))}
    /\ store = [id \in RunIds |-> NoEntry]
    /\ phase = "building"
    /\ inv = NoInvoke
    /\ runtime = NewRuntimeContext
    /\ stack = <<>>
    /\ result = [call |-> "none", threw |-> FALSE]
    /\ invokes = 0
    /\ executed = <<>>
    /\ history = [prev |-> root, calls |-> 0, nexts |-> <<>>]

Called == [history EXCEPT !.prev = root, !.calls = @ + 1]

CanBuild == root.kind = "StateMachine" /\ history.calls < MaxCalls

AddNode ==
    /\ CanBuild
    /\ \E name \in BuildNames \cup {START, END} :
          /\ root' = addNode(root, name, FunctionNode("addOne"))
          /\ result' = [call |-> "addNode", threw |-> addNodeThrows(root, name), name |-> name]
    /\ history' = Called
    /\ UNCHANGED <<store, phase, inv, runtime, stack, invokes, executed>>

AddEdge ==
    /\ CanBuild
    /\ \E from \in {START, <<"a">>, <<"b">>}, to \in BuildNames \cup {END} :
          /\ root' = addEdge(root, from, to)
          /\ result' = [call |-> "addEdge", threw |-> FALSE]
    /\ history' = Called
    /\ UNCHANGED <<store, phase, inv, runtime, stack, invokes, executed>>

AddConditionalEdge ==
    /\ CanBuild
    /\ \E from \in {START, <<"a">>}, to \in CandidateLists, func \in DecisionFuncs :
          /\ root' = addConditionalEdge(root, from, to, func)
          /\ result' = [call |-> "addConditionalEdge",
                        threw |-> addConditionalEdgeThrows(to), to |-> to]
    /\ history' = Called
    /\ UNCHANGED <<store, phase, inv, runtime, stack, invokes, executed>>

NextNode ==
    /\ root.kind = "NodeSequence"
    /\ Len(history.nexts) < MaxNext
    /\ \E node \in BuildNodes :
          /\ root' = next(root, node)
          /\ history' = [Called EXCEPT !.nexts = Append(@, node)]
    /\ result' = [call |-> "next", threw |-> FALSE]
    /\ UNCHANGED <<store, phase, inv, runtime, stack, invokes, executed>>

Validate ==
    /\ result' = [call |-> "validate", threw |-> ~validate(root)]
    /\ UNCHANGED <<root, store, phase, inv, runtime, stack, invokes, executed, history>>

\* transition(state, context) with context.currentNode = from
Transition ==
    /\ \E from \in {START, <<"a">>, <<"b">>} :
          LET context == setCurrentNode(nextLayer(NewRuntimeContext), 1, from)
              tr == transition(root, [count |-> Num(0)], context, 1)
          IN /\ runtime' = IF tr.ok THEN tr.v ELSE context
             /\ result' = [call |-> "transition", threw |-> ~tr.ok, from |-> from]
    /\ UNCHANGED <<root, store, phase, inv, stack, invokes, executed, history>>

BuildNext ==
    \/ AddNode
    \/ AddEdge
    \/ AddConditionalEdge
    \/ NextNode
    \/ Validate
    \/ Transition

BuildSpec == BuildInit /\ [][BuildNext]_vars

AfterTransition == phase = "building" /\ result.call = "transition"

\* C13: transition sets currentNode to the target of the unconditional edge
\* of the current node if there is one, also when the node has a conditional
\* edge, whose decision function is then not evaluated; else, if the node has
\* a conditional edge, to the name the decision function returns provided it
\* is a declared candidate, and otherwise it throws and leaves currentNode
\* unchanged; else it throws and leaves currentNode unchanged.
C13_Transition ==
    AfterTransition =>
        LET from == result.from
            after == runtime.contextLayers[1].currentNode
        IN IF from \in DOMAIN root.edges
           THEN ~result.threw /\ after = root.edges[from]
           ELSE IF from \in DOMAIN root.conditionalEdges
           THEN LET func == root.conditionalFuncs[from]
                    candidates == Range(root.conditionalEdges[from])
                IN IF func = "throwing" THEN result.threw /\ after = from
                   ELSE IF <<func>> \in candidates
                   THEN ~result.threw /\ after = <<func>>
                   ELSE result.threw /\ after = from
           ELSE result.threw /\ after = from

\* transition followed the unconditional edge of a node that also has a
\* conditional edge whose decision function throws when called
C13_Witness ==
    /\ AfterTransition
    /\ result.from \in DOMAIN root.edges
    /\ result.from \in DOMAIN root.conditionalEdges
    /\ root.conditionalFuncs[result.from] = "throwing"
    /\ ~result.threw
    /\ runtime.contextLayers[1].currentNode = root.edges[result.from]

\* START has an outgoing edge and some edge target or conditional candidate
\* is END itself
WellFormed(g) ==
    /\ START \in DOMAIN g.edges \/ START \in DOMAIN g.conditionalEdges
    /\ \/ \E from \in DOMAIN g.edges : g.edges[from] = END
       \/ \E from \in DOMAIN g.conditionalEdges : END \in Range(g.conditionalEdges[from])

\* C14: validate() returns without throwing if and only if START has an
\* outgoing unconditional or conditional edge and at least one unconditional
\* edge target or conditional candidate is the END node itself.
C14_ValidateIffWellFormed ==
    phase = "building" /\ result.call = "validate" => (~result.threw <=> WellFormed(root))

\* C16: StateMachine.addNode throws for the reserved names START and END and
\* for a name already registered, addConditionalEdge throws for an empty
\* candidate list, and a rejected call leaves the graph's nodes, edges and
\* conditional edges exactly as before the call.
C16_RejectedCalls ==
    /\ phase = "building" /\ result.call = "addNode" =>
          /\ result.name \in {START, END} => result.threw
          /\ result.name \in DOMAIN history.prev.nodes => result.threw
          /\ result.threw => root = history.prev
          /\ ~result.threw => result.name \in DOMAIN root.nodes
    /\ phase = "building" /\ result.call = "addConditionalEdge" =>
          /\ result.to = <<>> => result.threw
          /\ result.threw => root = history.prev

\* addNode rejected a name that an earlier call had registered
C16_Witness ==
    /\ phase = "building"
    /\ result.call = "addNode"
    /\ result.threw
    /\ result.name \in DOMAIN history.prev.nodes
    /\ root = history.prev

\* C17: after k >= 1 calls to NodeSequence.next the nodes are exactly node-0
\* .. node-(k-1) in call order and the edges are exactly START -> node-0,
\* node-i -> node-(i+1) for i < k-1 and node-(k-1) -> END: exactly one edge
\* targets END and the previous last node no longer points to END.
C17_SequenceWiring ==
    phase = "building" /\ root.kind = "NodeSequence" /\ Len(history.nexts) >= 1 =>
        LET k == Len(history.nexts)
        IN /\ DOMAIN root.nodes = {NodeName(i) : i \in 0..(k - 1)}
           /\ \A i \in 0..(k - 1) : root.nodes[NodeName(i)] = history.nexts[i + 1]
           /\ DOMAIN root.edges = {START} \cup {NodeName(i) : i \in 0..(k - 1)}
           /\ root.edges[START] = NodeName(0)
           /\ \A i \in 0..(k - 2) : root.edges[NodeName(i)] = NodeName(i + 1)
           /\ root.edges[NodeName(k - 1)] = END
           /\ Cardinality({from \in DOMAIN root.edges : root.edges[from] = END}) = 1
           /\ root.conditionalEdges = <<>>

\* three different nodes were appended with next
C17_Witness ==
    /\ phase = "building"
    /\ root.kind = "NodeSequence"
    /\ Len(history.nexts) = 3
    /\ history.nexts[1] # history.nexts[2]
    /\ root.edges[NodeName(1)] = NodeName(2)

====
